---- MODULE Spec2Model ----
(***************************************************************************)
(* Model of the visual-novel engine: the navigation handlers of app.py     *)
(* (change_scene, handle_choice, handle_input, load_initial_state) over a  *)
(* story graph, and the VisualNovelBuilder of engine.py.                    *)
(*                                                                         *)
(* Python conventions used throughout:                                     *)
(*   - Optional[T] is a sequence of length <= 1: None is <<>>, a value v   *)
(*     is <<v>>;                                                           *)
(*   - a Python list is a TLA+ sequence, Python index i is TLA+ index i+1; *)
(*   - a dict is a function whose DOMAIN is its key set;                   *)
(*   - truthiness (bool(x)) is written out where the code relies on it.    *)
(***************************************************************************)
EXTENDS Integers, Sequences, FiniteSets, TLC

\* ------------------------------------------------------------------ bounds

\* Largest number of scenes of a story graph.
MaxScenes == 3

\* Largest number of builder commands an author issues.
MaxCommands == 4

\* Largest number of scenes of a story graph whose scenes have texts.
MaxTextScenes == 2

\* Scenes of the graphs whose scenes carry motor commands, audio and poses.
MaxEffectScenes == 2

\* Navigation events of a session whose chained retrievals are followed.
MaxEvents == 2

\* ------------------------------------------------------------ Python values

None == <<>>

Some(x) == <<x>>

\* bool(s) of an Optional[str]: None and "" are falsy.
TruthyStr(o) == o # None /\ o[1] # ""

\* bool(l) of an Optional[list]: None and [] are falsy.
TruthyList(o) == o # None /\ Len(o[1]) > 0

\* bool(o) of an Optional[dataclass instance]: only None is falsy.
TruthyObj(o) == o # None

Min(a, b) == IF a <= b THEN a ELSE b

\* The characters of the Python strings that are rendered or substituted;
\* a str is written as a TLA+ string and read as a sequence of characters.
Chars(s) ==
    CASE s = "" -> <<>>
      [] s = "x" -> <<"x">>
      [] s = "y" -> <<"y">>
      [] s = "n" -> <<"n">>
      [] s = "m" -> <<"m">>
      [] s = "{m}" -> <<"{", "m", "}">>
      [] s = "{n}" -> <<"{", "n", "}">>
      [] s = "{m}{n}" -> <<"{", "m", "}", "{", "n", "}">>
      [] s = "..." -> <<".", ".", ".">>
      [] s = "player_name" ->
            <<"p", "l", "a", "y", "e", "r", "_", "n", "a", "m", "e">>
      [] s = "{player_name}" ->
            <<"{", "p", "l", "a", "y", "e", "r", "_", "n", "a", "m", "e", "}">>
      [] s = " {n} {q} " -> <<" ", "{", "n", "}", " ", "{", "q", "}", " ">>

\* s.startswith(old), on character sequences.
StartsWith(s, old) == Len(s) >= Len(old) /\ SubSeq(s, 1, Len(old)) = old

\* str.replace(old, new) for a non-empty old: the occurrences of old, found
\* from the left and not overlapping, become new.
RECURSIVE replace(_, _, _)
replace(s, old, new) ==
    IF Len(s) < Len(old)
    THEN s
    ELSE IF StartsWith(s, old)
         THEN new \o replace(SubSeq(s, Len(old) + 1, Len(s)), old, new)
         ELSE <<s[1]>> \o replace(Tail(s), old, new)

\* str.strip(): without the blanks at either end.
RECURSIVE strip(_)
strip(s) ==
    IF s = <<>>
    THEN s
    ELSE IF s[1] = " "
         THEN strip(Tail(s))
         ELSE IF s[Len(s)] = " "
              THEN strip(SubSeq(s, 1, Len(s) - 1))
              ELSE s

\* f"{{{var_name}}}": the placeholder of a variable name.
Placeholder(var_name) == (<<"{">> \o Chars(var_name)) \o <<"}">>

\* ------------------------------------------------------------- story graphs

\* Values of SceneState.path: None, the empty tag, two branch tags.
PathValues == {None, Some(""), Some("a"), Some("b")}

\* Names an InputRequest can store under.
VariableNames == {"n", "m"}

\* Texts the player can submit (the empty text included).
InputValues == {"", "x", "y"}

\* Values the choice radio can deliver (out-of-range ones included).
ChoiceIndices == -1 .. 2

\* A Choice, without its display text.
Choice(t) == [next_scene_index |-> t]

\* An InputRequest, without its prompt.
InputRequest(v) == [variable_name |-> v]

\* Choice lists of a graph of n scenes: the empty list, and two choices with
\* valid targets (the lists with the two targets swapped behave alike and
\* are left out).
ChoiceLists(n) ==
    {<<>>} \cup
    UNION {{<<Choice(t), Choice(u)>> : u \in t .. n - 1} : t \in 0 .. n - 1}

\* The fields of SceneState that navigation and rendering read.
SceneState(path, choices, input_request, text) ==
    [path |-> path, choices |-> choices, input_request |-> input_request,
     text |-> text]

\* What the one special scene of a graph of n scenes holds.
Features(n) ==
    {[choices |-> Some(c), input_request |-> None] : c \in ChoiceLists(n)}
        \cup {[choices |-> None, input_request |-> Some(InputRequest(v))] :
                v \in VariableNames}

\* Story graphs of n scenes: any path on any scene, and at most one scene
\* (at pos) that offers choices or requests input.
GraphsOf(n) ==
    {[i \in 1 .. n |->
        SceneState(paths[i],
                   IF i = pos THEN f.choices ELSE None,
                   IF i = pos THEN f.input_request ELSE None,
                   "")] :
        paths \in [1 .. n -> PathValues], pos \in 0 .. n, f \in Features(n)}

\* Story graphs of n scenes on the main path in which any scene may request
\* input, under any name.
InputGraphsOf(n) ==
    {[i \in 1 .. n |-> SceneState(None, None, reqs[i], "")] :
        reqs \in [1 .. n -> {None} \cup
                              {Some(InputRequest(v)) : v \in VariableNames}]}

StoryGraphs == UNION {GraphsOf(n) \cup InputGraphsOf(n) : n \in 0 .. MaxScenes}

\* Scene texts: placeholders of the two variable names and of a name no
\* input request stores under, and blanks around the text.
Texts == {"{n}", "{m}{n}", " {n} {q} "}

\* Texts a player can submit when scenes show them: one is itself a
\* placeholder.
TextInputValues == {"", "x", "{m}"}

\* Story graphs of n scenes on the main path, without choices, in which any
\* scene may request input under any name and one scene (at pos) has a text.
TextGraphsOf(n) ==
    {[i \in 1 .. n |->
        SceneState(None, None, reqs[i], IF i = pos THEN text ELSE "")] :
        reqs \in [1 .. n -> {None} \cup
                              {Some(InputRequest(v)) : v \in VariableNames}],
        pos \in 1 .. n, text \in Texts}

TextGraphs == UNION {TextGraphsOf(n) : n \in 1 .. MaxTextScenes}

\* ------------------------------------------------------------------- state

VARIABLES
    scenes,         \* story_state["scenes"]: the story graph
    index,          \* story_state["index"]
    variables,      \* story_state["variables"]: dict name -> text
    variable_keys,  \* the keys of that dict in insertion order
    active_paths,   \* story_state["active_paths"]: set of path tags
    result,         \* what the last handler returned (or how it ended)
    last,           \* history: the last handler, its argument, the state before
    activated,      \* history: the tags handle_choice has added to active_paths
    trip,           \* history: a Next press and the Back press right after it
    stored          \* history: the text handle_input last stored under each name

nav_vars ==
    <<scenes, index, variables, variable_keys, active_paths, result, last,
      activated, trip, stored>>

VARIABLES
    heap,           \* the mutable objects of the builder: address -> object
    builder,        \* the fields of the VisualNovelBuilder instance
    command,        \* history: the last builder command and how many were issued
    before,         \* history: what each snapshot held before the last command
    returned,       \* what build() returned: None before the call
    at_build,       \* history: what the snapshots held when build() was called
    settings,       \* history: the value each set_* command last gave its field
    look,           \* history: the background and sprites the commands asked for
    unpatched,      \* history: the heap and the builder a patch started from
    locals          \* the local variables of build_sample_story: name -> value

builder_vars ==
    <<heap, builder, command, before, returned, at_build, settings, look,
      unpatched, locals>>

VARIABLES
    story,          \* history: the graph build_sample_story returned at load
    chains          \* per navigation event: what its three .then chains read

effect_vars == <<story, chains>>

VARIABLES
    store,          \* the objects the sessions' story_states refer to
    sessions,       \* gr.State: the story_state of each session, None before load
    active          \* the session whose story_state the handler at work was given

session_vars == <<store, sessions, active>>

vars == <<nav_vars, builder_vars, effect_vars, session_vars>>

\* ---------------------------------------------------------------- rendering

\* "for var_name, var_value in variables.items(): text_content =
\* text_content.replace(...)": one replace after the other, over the keys from
\* position k of the dict's insertion order on.
RECURSIVE substitute(_, _, _, _)
substitute(text_content, vars_, keys, k) ==
    IF k > Len(keys)
    THEN text_content
    ELSE substitute(replace(text_content, Placeholder(keys[k]),
                            Chars(vars_[keys[k]])),
                    vars_, keys, k + 1)

\* Mutant: an input request does not disable navigation.
render_scene_ignoring_input(scene, i, total, vars_, keys) ==
    [status |-> "rendered",
     index |-> i,
     total |-> total,
     text |-> substitute(strip(Chars(scene.text)), vars_, keys, 1),
     has_choices |-> TruthyList(scene.choices),
     has_input |-> TruthyObj(scene.input_request),
     nav_enabled |-> ~TruthyList(scene.choices)]

\* render_scene followed by the handler's nav_enabled computation: the part
\* of the returned tuple that navigation claims read, and the text of the
\* speech bubble. vars_ and keys are the variables dict.
render_scene(scene, i, total, vars_, keys) ==
    [status |-> "rendered",
     index |-> i,
     total |-> total,
     text |-> substitute(strip(Chars(scene.text)), vars_, keys, 1),
     has_choices |-> TruthyList(scene.choices),
     has_input |-> TruthyObj(scene.input_request),
     nav_enabled |-> ~TruthyList(scene.choices) /\ ~TruthyObj(scene.input_request)]

\* The "No scenes available." tuple of change_scene.
NoContent == [status |-> "no_content", nav_enabled |-> TRUE]

\* The handler ended by raising IndexError.
Raised == [status |-> "IndexError"]

\* The handler never returned.
NoReturn == [status |-> "no_return"]

\* ------------------------------------------------------------- change_scene

\* Mutant: every scene counts as accessible (the path gate is dropped).
is_scene_accessible_ungated(scene, paths) == TRUE

\* Mutant: only scenes without a path are accessible (active paths ignored).
is_scene_accessible_main_only(scene, paths) == scene.path = None

is_scene_accessible(scene, paths) ==
    IF scene.path = None THEN TRUE ELSE scene.path[1] \in paths

\* The while loop of change_scene: the first accessible index at or after
\* search_index in steps of direction. With direction 0 the loop variable
\* never changes, so an inaccessible scene at search_index keeps it looping.
RECURSIVE scan(_, _, _, _)
scan(scs, paths, search_index, direction) ==
    IF ~(0 <= search_index /\ search_index < Len(scs))
    THEN [kind |-> "exhausted"]
    ELSE IF is_scene_accessible(scs[search_index + 1], paths)
         THEN [kind |-> "found", at |-> search_index]
         ELSE IF direction = 0
              THEN [kind |-> "loops"]
              ELSE scan(scs, paths, search_index + direction, direction)

\* Mutant: when the scan finds no accessible scene the index still moves one
\* step, as far as the graph reaches.
change_scene_stepping(direction) ==
    IF Len(scenes) = 0
    THEN [index |-> index, scenes |-> scenes, result |-> NoContent]
    ELSE LET found == scan(scenes, active_paths, index + direction, direction)
             step == index + direction
             new_index == IF found.kind = "found"
                          THEN found.at
                          ELSE IF step < 0
                               THEN 0
                               ELSE Min(step, Len(scenes) - 1)
         IN  IF found.kind = "loops"
             THEN [index |-> index, scenes |-> scenes, result |-> NoReturn]
             ELSE [index |-> new_index,
                   scenes |-> scenes,
                   result |-> render_scene(scenes[new_index + 1], new_index,
                                           Len(scenes), variables,
                                           variable_keys)]

\* change_scene(story_state, direction): the new story_state["index"] and
\* the returned tuple.
change_scene(direction) ==
    IF Len(scenes) = 0
    THEN [index |-> index, scenes |-> scenes, result |-> NoContent]
    ELSE LET found == scan(scenes, active_paths, index + direction, direction)
             new_index == IF found.kind = "found" THEN found.at ELSE index
         IN  IF found.kind = "loops"
             THEN [index |-> index, scenes |-> scenes, result |-> NoReturn]
             ELSE [index |-> new_index,
                   scenes |-> scenes,
                   result |-> render_scene(scenes[new_index + 1], new_index,
                                           Len(scenes), variables,
                                           variable_keys)]

\* ----------------------------------------------------------- story builder
\* Python objects that can be reached through more than one reference are
\* kept in heap, a sequence indexed by address: a characters dict, a
\* CharacterSprite, a motor_commands list, a choices list. A SceneState is
\* the record of its fields, with addresses where it refers to such objects.

\* Stands for the module's default background URL.
DEFAULT_BACKGROUND == "default.jpg"

\* The character definitions an author registers (those of the sample story).
CharacterDefinitions ==
    {[name |-> "Ari", image_url |-> "ari.svg", animated |-> FALSE],
     [name |-> "Bo", image_url |-> "bo.svg", animated |-> TRUE]}

\* The names commands are issued for, in a fixed order.
NameSeq == <<"Ari", "Bo">>

Names == {NameSeq[i] : i \in 1 .. Len(NameSeq)}

Positions == {"left", "right"}

CharacterSprite(name, image_url, position, visible, animation, scale) ==
    [kind |-> "CharacterSprite", name |-> name, image_url |-> image_url,
     position |-> position, visible |-> visible, animation |-> animation,
     scale |-> scale]

DictObject(items) == [kind |-> "dict", items |-> items]

ListObject(items) == [kind |-> "list", items |-> items]

\* A RobotPose: the fields not named keep the dataclass default 0.
RobotPose(head_z, head_yaw, body_yaw, antenna_left, antenna_right) ==
    [head_x |-> 0, head_y |-> 0, head_z |-> head_z, head_roll |-> 0,
     head_pitch |-> 0, head_yaw |-> head_yaw, body_yaw |-> body_yaw,
     antenna_left |-> antenna_left, antenna_right |-> antenna_right]

MotorCommand(motor_id, position) == [motor_id |-> motor_id, position |-> position]

\* The keys of a characters dict, in NameSeq order.
KeySeq(items) == SelectSeq(NameSeq, LAMBDA n : n \in DOMAIN items)

\* Mutant: copy.copy in place of copy.deepcopy: a new dict holding the same
\* CharacterSprite objects.
shallow_copy(h, d) == [heap |-> Append(h, h[d]), at |-> Len(h) + 1]

\* copy.deepcopy of the characters dict at address d: a new CharacterSprite
\* per key and a new dict holding them; the new heap and the dict's address.
deepcopy(h, d) ==
    LET keys == KeySeq(h[d].items)
        slot(n) == CHOOSE i \in 1 .. Len(keys) : keys[i] = n
        sprites == [i \in 1 .. Len(keys) |-> h[h[d].items[keys[i]]]]
        copy == DictObject([n \in DOMAIN h[d].items |-> Len(h) + slot(n)])
    IN  [heap |-> (h \o sprites) \o <<copy>>, at |-> Len(h) + Len(keys) + 1]

\* VisualNovelBuilder.__init__: an empty _current_sprites dict at address 1.
NewHeap == <<DictObject(<<>>)>>

NewBuilder ==
    [_states |-> <<>>,
     _character_defs |-> <<>>,
     _current_background |-> DEFAULT_BACKGROUND,
     _current_label |-> "",
     _current_sprites |-> 1,
     _current_show_camera |-> FALSE,
     _current_show_voice |-> FALSE,
     _current_show_motors |-> FALSE,
     _current_show_robot |-> FALSE,
     _current_background_blur |-> 0,
     _current_stage |-> "",
     _current_stage_blur |-> 0,
     _current_path |-> None]

\* Mutant: the new SceneState is on the main path whatever set_path gave.
_clone_state_without_path ==
    LET c == deepcopy(heap, builder._current_sprites)
        h == Append(c.heap, ListObject(<<>>))
    IN  [heap |-> h,
         state |->
            [background_url |-> builder._current_background,
             background_label |-> builder._current_label,
             characters |-> c.at,
             speaker |-> "",
             text |-> "",
             show_camera |-> builder._current_show_camera,
             show_voice |-> builder._current_show_voice,
             show_motors |-> builder._current_show_motors,
             show_robot |-> builder._current_show_robot,
             background_blur |-> builder._current_background_blur,
             stage_url |-> builder._current_stage,
             stage_blur |-> builder._current_stage_blur,
             choices |-> None,
             input_request |-> None,
             path |-> None,
             motor_commands |-> Len(h),
             audio_file |-> None,
             robot_pose |-> None]]

\* Mutant: the new SceneState takes over the dialogue and the side effects
\* of the snapshot emitted last.
_clone_state_inheriting ==
    LET c == deepcopy(heap, builder._current_sprites)
        n == Len(builder._states)
        h == Append(c.heap,
                    ListObject(IF n = 0
                               THEN <<>>
                               ELSE heap[builder._states[n].motor_commands].items))
    IN  [heap |-> h,
         state |->
            [background_url |-> builder._current_background,
             background_label |-> builder._current_label,
             characters |-> c.at,
             speaker |-> IF n = 0 THEN "" ELSE builder._states[n].speaker,
             text |-> IF n = 0 THEN "" ELSE builder._states[n].text,
             show_camera |-> builder._current_show_camera,
             show_voice |-> builder._current_show_voice,
             show_motors |-> builder._current_show_motors,
             show_robot |-> builder._current_show_robot,
             background_blur |-> builder._current_background_blur,
             stage_url |-> builder._current_stage,
             stage_blur |-> builder._current_stage_blur,
             choices |-> None,
             input_request |-> None,
             path |-> builder._current_path,
             motor_commands |-> Len(h),
             audio_file |-> IF n = 0 THEN None ELSE builder._states[n].audio_file,
             robot_pose |-> IF n = 0 THEN None ELSE builder._states[n].robot_pose]]

\* _clone_state: a new SceneState from the running state, with a deep copy
\* of _current_sprites and a new empty motor_commands list.
_clone_state ==
    LET c == deepcopy(heap, builder._current_sprites)
        h == Append(c.heap, ListObject(<<>>))
    IN  [heap |-> h,
         state |->
            [background_url |-> builder._current_background,
             background_label |-> builder._current_label,
             characters |-> c.at,
             speaker |-> "",
             text |-> "",
             show_camera |-> builder._current_show_camera,
             show_voice |-> builder._current_show_voice,
             show_motors |-> builder._current_show_motors,
             show_robot |-> builder._current_show_robot,
             background_blur |-> builder._current_background_blur,
             stage_url |-> builder._current_stage,
             stage_blur |-> builder._current_stage_blur,
             choices |-> None,
             input_request |-> None,
             path |-> builder._current_path,
             motor_commands |-> Len(h),
             audio_file |-> None,
             robot_pose |-> None]]

\* Mutant: the pushed state's characters are not taken over as the running
\* sprites.
_push_state_keeping_sprites(h, state) ==
    [heap |-> h,
     builder |-> [builder EXCEPT
                    !._states = Append(@, state),
                    !._current_background = state.background_url,
                    !._current_label = state.background_label]]

\* _push_state(state) on heap h: append the state, take over its background
\* and label, and keep a deep copy of its characters as _current_sprites.
_push_state(h, state) ==
    LET c == deepcopy(h, state.characters)
    IN  [heap |-> c.heap,
         builder |-> [builder EXCEPT
                        !._states = Append(@, state),
                        !._current_background = state.background_url,
                        !._current_label = state.background_label,
                        !._current_sprites = c.at]]

\* "if name in state.characters: state.characters[name].<field> = <value>"
\* for the fields of changes.
set_sprite_fields(h, state, name, changes) ==
    LET items == h[state.characters].items
    IN  IF name \in DOMAIN items
        THEN [h EXCEPT ![items[name]] =
                [f \in DOMAIN @ |->
                    IF f \in DOMAIN changes THEN changes[f] ELSE @[f]]]
        ELSE h

\* Mutant: a command that names an unregistered character emits nothing.
character_command_registered_only(name, changes) ==
    LET c == _clone_state
    IN  IF name \in DOMAIN c.heap[c.state.characters].items
        THEN _push_state(set_sprite_fields(c.heap, c.state, name, changes),
                         c.state)
        ELSE [heap |-> heap, builder |-> builder]

\* The six commands that emit a snapshot with one character changed.
character_command(name, changes) ==
    LET c == _clone_state
    IN  _push_state(set_sprite_fields(c.heap, c.state, name, changes), c.state)

show_character(name, position) ==
    character_command(name, [visible |-> TRUE, position |-> position])

hide_character(name) == character_command(name, [visible |-> FALSE])

move_character(name, position) ==
    character_command(name, [position |-> position])

change_character_sprite(name, image_url) ==
    character_command(name, [image_url |-> image_url])

set_character_animation(name, animation) ==
    character_command(name, [animation |-> animation])

set_character_scale(name, scale) == character_command(name, [scale |-> scale])

\* send_motor_command: a snapshot whose motor_commands list got one command.
send_motor_command(motor_id, position) ==
    LET c == _clone_state
        list == c.state.motor_commands
    IN  _push_state([c.heap EXCEPT ![list].items =
                        Append(@, MotorCommand(motor_id, position))],
                    c.state)

\* set_characters([char]): register the definition and put a new sprite for
\* it into the _current_sprites dict itself.
set_characters(char) ==
    LET sprite == CharacterSprite(char.name, char.image_url, "center", FALSE,
                                  IF char.animated THEN "idle" ELSE "", 10)
        h == Append(heap, sprite)
        dict == builder._current_sprites
    IN  [heap |-> [h EXCEPT ![dict].items =
                      [n \in DOMAIN @ \cup {char.name} |->
                          IF n = char.name THEN Len(h) ELSE @[n]]],
         builder |-> [builder EXCEPT !._character_defs =
                        [n \in DOMAIN @ \cup {char.name} |->
                            IF n = char.name THEN char ELSE @[n]]]]

\* Mutant: each call starts a new choices list.
add_choice_replacing(next_scene_index) ==
    LET n == Len(builder._states)
    IN  IF n = 0
        THEN [heap |-> heap, builder |-> builder]
        ELSE [heap |-> Append(heap, ListObject(<<Choice(next_scene_index)>>)),
              builder |-> [builder EXCEPT
                             !._states[n].choices = Some(Len(heap) + 1)]]

\* add_choice(text, next_scene_index): append to the choices list of the
\* last state, creating the list when it is None; nothing without a state.
add_choice(next_scene_index) ==
    LET n == Len(builder._states)
    IN  IF n = 0
        THEN [heap |-> heap, builder |-> builder]
        ELSE LET made == builder._states[n].choices = None
                 h == IF made THEN Append(heap, ListObject(<<>>)) ELSE heap
                 list == IF made THEN Len(h) ELSE builder._states[n].choices[1]
             IN  [heap |-> [h EXCEPT ![list].items =
                               Append(@, Choice(next_scene_index))],
                  builder |-> [builder EXCEPT
                                 !._states[n].choices = Some(list)]]

\* set_background(image_url, label): a snapshot with a new background.
set_background(image_url, label) ==
    LET c == _clone_state
    IN  _push_state(c.heap, [c.state EXCEPT !.background_url = image_url,
                                            !.background_label = label])

\* narration(text): a snapshot with a text and no speaker.
narration(text) ==
    LET c == _clone_state
    IN  _push_state(c.heap, [c.state EXCEPT !.speaker = "", !.text = text])

\* dialogue(speaker, text): a snapshot with a speaker and a line.
dialogue(speaker, text) ==
    LET c == _clone_state
    IN  _push_state(c.heap, [c.state EXCEPT !.speaker = speaker, !.text = text])

\* The loop of send_motor_commands: one MotorCommand appended per tuple.
RECURSIVE append_commands(_, _)
append_commands(items, commands) ==
    IF commands = <<>>
    THEN items
    ELSE append_commands(Append(items, MotorCommand(Head(commands)[1],
                                                    Head(commands)[2])),
                         Tail(commands))

\* send_motor_commands(commands): one snapshot whose motor_commands list
\* got a command per (motor_id, position) tuple.
send_motor_commands(commands) ==
    LET c == _clone_state
        list == c.state.motor_commands
    IN  _push_state([c.heap EXCEPT ![list].items = append_commands(@, commands)],
                    c.state)

\* send_robot_pose(...): a snapshot with a RobotPose.
send_robot_pose(head_z, head_yaw, body_yaw, antenna_left, antenna_right) ==
    LET c == _clone_state
    IN  _push_state(c.heap,
                    [c.state EXCEPT
                        !.robot_pose = Some(RobotPose(head_z, head_yaw, body_yaw,
                                                      antenna_left,
                                                      antenna_right))])

\* play_sound(audio_file): a snapshot with an audio file.
play_sound(audio_file) ==
    LET c == _clone_state
    IN  _push_state(c.heap, [c.state EXCEPT !.audio_file = Some(audio_file)])

\* request_input(prompt, variable_name): a snapshot with an input request.
request_input(variable_name) ==
    LET c == _clone_state
    IN  _push_state(c.heap, [c.state EXCEPT
                                !.input_request = Some(InputRequest(variable_name))])

\* The commands that only assign a field of the builder.
set_camera(show) ==
    [heap |-> heap, builder |-> [builder EXCEPT !._current_show_camera = show]]

set_voice(show) ==
    [heap |-> heap, builder |-> [builder EXCEPT !._current_show_voice = show]]

set_motors(show) ==
    [heap |-> heap, builder |-> [builder EXCEPT !._current_show_motors = show]]

set_robot(show) ==
    [heap |-> heap, builder |-> [builder EXCEPT !._current_show_robot = show]]

set_background_blur(blur_amount) ==
    [heap |-> heap,
     builder |-> [builder EXCEPT !._current_background_blur = blur_amount]]

set_stage(image_url) ==
    [heap |-> heap, builder |-> [builder EXCEPT !._current_stage = image_url]]

set_stage_blur(blur_amount) ==
    [heap |-> heap,
     builder |-> [builder EXCEPT !._current_stage_blur = blur_amount]]

set_path(path) ==
    [heap |-> heap, builder |-> [builder EXCEPT !._current_path = path]]

\* Mutant: copy.copy in place of copy.deepcopy: the patched state keeps the
\* characters dict and the motor_commands list of the state it replaces.
patch_choice_scene_shallow(i, targets, path) ==
    LET state == builder._states[i]
        h2 == Append(heap, ListObject([k \in 1 .. Len(targets) |->
                                          Choice(targets[k])]))
        patched == [state EXCEPT !.choices = Some(Len(h2)),
                                 !.input_request = None,
                                 !.path = path]
    IN  [heap |-> h2, builder |-> [builder EXCEPT !._states[i] = patched]]

\* Mutant: the patch lands one state late, on _states[i] of the program.
patch_choice_scene_late(i, targets, path) ==
    LET state == builder._states[i + 1]
        c == deepcopy(heap, state.characters)
        h1 == Append(c.heap, ListObject(heap[state.motor_commands].items))
        h2 == Append(h1, ListObject([k \in 1 .. Len(targets) |->
                                        Choice(targets[k])]))
        patched == [state EXCEPT !.characters = c.at,
                                 !.motor_commands = Len(h1),
                                 !.choices = Some(Len(h2)),
                                 !.input_request = None,
                                 !.path = path]
    IN  [heap |-> h2, builder |-> [builder EXCEPT !._states[i + 1] = patched]]

\* The sample story's patch of an emitted state (Python index i - 1): a
\* copy.deepcopy of the state gets a new choices list, no input request and
\* a path, and is assigned to the same place of _states.
patch_choice_scene(i, targets, path) ==
    LET state == builder._states[i]
        c == deepcopy(heap, state.characters)
        h1 == Append(c.heap, ListObject(heap[state.motor_commands].items))
        h2 == Append(h1, ListObject([k \in 1 .. Len(targets) |->
                                        Choice(targets[k])]))
        patched == [state EXCEPT !.characters = c.at,
                                 !.motor_commands = Len(h1),
                                 !.choices = Some(Len(h2)),
                                 !.input_request = None,
                                 !.path = path]
    IN  [heap |-> h2, builder |-> [builder EXCEPT !._states[i] = patched]]

\* build(): "return self._states". The value is a reference to the list
\* object the builder keeps in _states, written as the name of that field.
build == "_states"

\* What a SceneState holds, with every address replaced by the object there.
View(h, state) ==
    [state EXCEPT
        !.characters = [n \in DOMAIN h[@].items |-> h[h[@].items[n]]],
        !.motor_commands = h[@].items,
        !.choices = IF @ = None THEN None ELSE Some(h[@[1]].items)]

Views(h, states) == [i \in 1 .. Len(states) |-> View(h, states[i])]

\* The list of snapshots a reference build() returned denotes now.
StoryGraph == Views(heap, builder[returned[1]])

\* The sprite set_characters makes for a definition.
NewSprite(char) ==
    CharacterSprite(char.name, char.image_url, "center", FALSE,
                    IF char.animated THEN "idle" ELSE "", 10)

\* The builder field each set_* command is documented to set.
SetterField ==
    [set_camera |-> "show_camera", set_voice |-> "show_voice",
     set_motors |-> "show_motors", set_robot |-> "show_robot",
     set_background_blur |-> "background_blur", set_stage |-> "stage_url",
     set_stage_blur |-> "stage_blur", set_path |-> "path"]

NoSettings ==
    [show_camera |-> FALSE, show_voice |-> FALSE, show_motors |-> FALSE,
     show_robot |-> FALSE, background_blur |-> 0, stage_url |-> "",
     stage_blur |-> 0, path |-> None]

NoLook ==
    [background_url |-> DEFAULT_BACKGROUND, background_label |-> "",
     characters |-> <<>>]

\* settings after the command name(args).
Settings(name, args) ==
    IF name \in DOMAIN SetterField
    THEN [settings EXCEPT ![SetterField[name]] = args.value]
    ELSE settings

\* look after the command name(args): set_background gives the background,
\* set_characters gives a character its registration defaults, a character
\* command gives a registered character the fields it names.
Look(name, args) ==
    IF name = "set_background"
    THEN [look EXCEPT !.background_url = args.image_url,
                      !.background_label = args.label]
    ELSE IF name = "set_characters"
    THEN [look EXCEPT !.characters =
            [n \in DOMAIN @ \cup {args.name} |->
                IF n = args.name THEN NewSprite(args) ELSE @[n]]]
    ELSE IF "changes" \in DOMAIN args /\ args.name \in DOMAIN look.characters
    THEN [look EXCEPT !.characters[args.name] =
            [f \in DOMAIN @ |->
                IF f \in DOMAIN args.changes THEN args.changes[f] ELSE @[f]]]
    ELSE look

\* A builder command name(args) with outcome out, issued by the author.
Issue(name, args, out) ==
    /\ command.count < MaxCommands
    /\ heap' = out.heap
    /\ builder' = out.builder
    /\ command' = [name |-> name, args |-> args, count |-> command.count + 1]
    /\ before' = Views(heap, builder._states)
    /\ settings' = Settings(name, args)
    /\ look' = Look(name, args)
    /\ unpatched' = IF name = "patch"
                    THEN Some([heap |-> heap, builder |-> builder])
                    ELSE None
    /\ UNCHANGED <<returned, at_build, locals>>
    /\ UNCHANGED <<nav_vars, effect_vars, session_vars>>

\* The arguments of a command about one character: its name and the sprite
\* fields the command is documented to set.
About(name, changes) == [name |-> name, changes |-> changes]

SetCharacters ==
    \E char \in CharacterDefinitions :
        Issue("set_characters", char, set_characters(char))

ShowCharacter ==
    \E name \in Names, position \in Positions :
        Issue("show_character",
              About(name, [visible |-> TRUE, position |-> position]),
              show_character(name, position))

HideCharacter ==
    \E name \in Names :
        Issue("hide_character", About(name, [visible |-> FALSE]),
              hide_character(name))

MoveCharacter ==
    \E name \in Names, position \in Positions :
        Issue("move_character", About(name, [position |-> position]),
              move_character(name, position))

ChangeCharacterSprite ==
    \E name \in Names :
        Issue("change_character_sprite",
              About(name, [image_url |-> "happy.svg"]),
              change_character_sprite(name, "happy.svg"))

SetCharacterAnimation ==
    \E name \in Names :
        Issue("set_character_animation",
              About(name, [animation |-> "shake"]),
              set_character_animation(name, "shake"))

SetCharacterScale ==
    \E name \in Names :
        Issue("set_character_scale", About(name, [scale |-> 15]),
              set_character_scale(name, 15))

SendMotorCommand ==
    Issue("send_motor_command", [motor_id |-> 1, position |-> 90],
          send_motor_command(1, 90))

AddChoice ==
    \E next_scene_index \in 0 .. 1 :
        Issue("add_choice", [next_scene_index |-> next_scene_index],
              add_choice(next_scene_index))

\* Targets an author passes to add_choice while the story is being written:
\* indices of scenes that exist, that are yet to come, or that never will.
TargetIndices == -1 .. 2

AddChoiceAnywhere ==
    \E next_scene_index \in TargetIndices :
        Issue("add_choice", [next_scene_index |-> next_scene_index],
              add_choice(next_scene_index))

SetBackground ==
    \E label \in {"", "Lab"} :
        Issue("set_background", [image_url |-> "lab.png", label |-> label],
              set_background("lab.png", label))

Narration == Issue("narration", [text |-> "Hi"], narration("Hi"))

RequestInput ==
    Issue("request_input", [variable_name |-> "n"], request_input("n"))

Dialogue ==
    Issue("dialogue", [speaker |-> "Ari", text |-> "Hi"], dialogue("Ari", "Hi"))

\* Lists of (motor_id, position) tuples an author sends at once.
CommandLists == {<<>>, <<<<1, 90>>, <<2, 180>>>>, <<<<2, 0>>, <<1, 45>>, <<1, 90>>>>}

SendMotorCommands ==
    \E commands \in CommandLists :
        Issue("send_motor_commands", [commands |-> commands],
              send_motor_commands(commands))

SendRobotPose ==
    Issue("send_robot_pose", [pose |-> RobotPose(1, 2, 3, 4, 5)],
          send_robot_pose(1, 2, 3, 4, 5))

PlaySound ==
    Issue("play_sound", [audio_file |-> "a.wav"], play_sound("a.wav"))

SetCamera ==
    \E show \in BOOLEAN : Issue("set_camera", [value |-> show], set_camera(show))

SetVoice == Issue("set_voice", [value |-> TRUE], set_voice(TRUE))

SetMotors == Issue("set_motors", [value |-> TRUE], set_motors(TRUE))

SetRobot == Issue("set_robot", [value |-> TRUE], set_robot(TRUE))

SetBackgroundBlur ==
    Issue("set_background_blur", [value |-> 8], set_background_blur(8))

SetStage == Issue("set_stage", [value |-> "p3.png"], set_stage("p3.png"))

SetStageBlur == Issue("set_stage_blur", [value |-> 3], set_stage_blur(3))

SetPath ==
    \E path \in {None, Some("a")} :
        Issue("set_path", [value |-> path], set_path(path))

\* The author patches an emitted state, as the sample story does.
PatchChoiceScene ==
    \E i \in 1 .. Len(builder._states) :
        Issue("patch", [index |-> i - 1],
              patch_choice_scene(i, <<0, 1>>, Some("a")))

\* The author calls build() and keeps what it returns.
Build ==
    /\ command.count < MaxCommands
    /\ returned' = Some(build)
    /\ at_build' = Views(heap, builder._states)
    /\ command' = [name |-> "build", args |-> <<>>, count |-> command.count + 1]
    /\ before' = Views(heap, builder._states)
    /\ UNCHANGED <<heap, builder, settings, look, locals>>
    /\ unpatched' = None
    /\ UNCHANGED <<nav_vars, effect_vars, session_vars>>

\* A builder right after construction.
BuilderNew ==
    /\ heap = NewHeap
    /\ builder = NewBuilder
    /\ command = [name |-> "__init__", args |-> <<>>, count |-> 0]
    /\ before = <<>>
    /\ returned = None
    /\ at_build = <<>>
    /\ settings = NoSettings
    /\ look = NoLook
    /\ unpatched = None
    /\ locals = <<>>

\* ------------------------------------------------------------ side effects

\* What a scene sends to the actuators: three kinds of scene.
SideEffects ==
    <<[motor_commands |-> <<MotorCommand(1, 90), MotorCommand(2, 400)>>,
       audio_file |-> Some("a.wav"),
       robot_pose |-> Some(RobotPose(1, 2, 3, 4, 5))],
      [motor_commands |-> <<>>, audio_file |-> None, robot_pose |-> None],
      [motor_commands |-> <<MotorCommand(2, -10), MotorCommand(1, 180),
                            MotorCommand(3, 45)>>,
       audio_file |-> Some("b.wav"),
       robot_pose |-> Some(RobotPose(0, 0, 0, 0, 0))]>>

\* What a scene of a graph of n scenes offers the player.
NavScenes(n) ==
    {SceneState(None, None, None, ""),
     SceneState(None, None, Some(InputRequest("n")), ""),
     SceneState(None, Some(<<Choice(0), Choice(n - 1)>>), None, ""),
     SceneState(Some("a"), None, None, "")}

\* A SceneState with the fields the retrievals read.
EffectScene(scene, effects) ==
    [path |-> scene.path, choices |-> scene.choices,
     input_request |-> scene.input_request, text |-> scene.text,
     motor_commands |-> effects.motor_commands,
     audio_file |-> effects.audio_file,
     robot_pose |-> effects.robot_pose]

\* Story graphs of n scenes whose side effects go round the three kinds.
EffectGraphsOf(n) ==
    {[i \in 1 .. n |-> EffectScene(nav[i], SideEffects[((i + r) % 3) + 1])] :
        nav \in [1 .. n -> NavScenes(n)], r \in 0 .. 2}

EffectGraphs == UNION {EffectGraphsOf(n) : n \in 0 .. MaxEffectScenes}

\* dxl_build_goal_position_packet(motor_id, degrees): the packet is written
\* as the arguments it is built from, the motor and the ticks.
dxl_build_goal_position_packet(motor_id, degrees) ==
    LET clamped_deg == IF degrees < 0 THEN 0 ELSE Min(360, degrees)
        ticks == (clamped_deg * 4095) \div 360
    IN  [motor_id |-> motor_id, ticks |-> ticks]

\* The loop of get_scene_motor_packets: one packet appended per command.
RECURSIVE build_packets(_, _)
build_packets(motor_commands, packets) ==
    IF motor_commands = <<>>
    THEN packets
    ELSE LET cmd == Head(motor_commands)
         IN  build_packets(Tail(motor_commands),
                           Append(packets,
                                  dxl_build_goal_position_packet(cmd.motor_id,
                                                                 cmd.position)))

\* Mutant: each packet goes in front of those built before it.
get_scene_motor_packets_reversed ==
    IF 0 <= index /\ index < Len(scenes)
    THEN LET packets == build_packets(scenes[index + 1].motor_commands, <<>>)
         IN  [i \in 1 .. Len(packets) |-> packets[Len(packets) + 1 - i]]
    ELSE <<>>

\* get_scene_motor_packets(story_state).
get_scene_motor_packets ==
    IF 0 <= index /\ index < Len(scenes)
    THEN build_packets(scenes[index + 1].motor_commands, <<>>)
    ELSE <<>>

\* get_scene_audio(story_state).
get_scene_audio ==
    IF 0 <= index /\ index < Len(scenes)
    THEN scenes[index + 1].audio_file
    ELSE None

\* get_scene_robot_pose(story_state): a dict of the pose, or None.
get_scene_robot_pose ==
    IF 0 <= index /\ index < Len(scenes)
    THEN LET scene == scenes[index + 1] IN
         IF TruthyObj(scene.robot_pose)
         THEN LET robot_pose == scene.robot_pose[1]
              IN  Some([target_head_pose |->
                            [x |-> robot_pose.head_x, y |-> robot_pose.head_y,
                             z |-> robot_pose.head_z,
                             roll |-> robot_pose.head_roll,
                             pitch |-> robot_pose.head_pitch,
                             yaw |-> robot_pose.head_yaw],
                        target_body_yaw |-> robot_pose.body_yaw,
                        target_antennas |-> <<robot_pose.antenna_left,
                                              robot_pose.antenna_right>>])
         ELSE None
    ELSE None

\* ---------------------------------------------------------------- handlers

History(op, direction, choice_index, user_input) ==
    [op |-> op, direction |-> direction, choice_index |-> choice_index,
     user_input |-> user_input, index |-> index, variables |-> variables,
     active_paths |-> active_paths]

\* trip: stage 1 after change_scene(state, 1) from index origin to index mid,
\* stage 2 after the change_scene(state, -1) that directly follows it.
NoTrip == [stage |-> 0, origin |-> 0, mid |-> 0]

\* Scene i (a Python index) exists.
ValidIndex(i) == 0 <= i /\ i < Len(scenes)

\* No handler of a session runs after one that never returned.
Responsive == result.status # "no_return"

\* load_initial_state: a fresh story_state over the author's graph.
load_initial_state ==
    /\ index = 0
    /\ variables = <<>>
    /\ variable_keys = <<>>
    /\ active_paths = {}
    /\ result = IF Len(scenes) > 0
                THEN render_scene(scenes[1], 0, Len(scenes), <<>>, <<>>)
                ELSE NoContent
    /\ stored = <<>>
    /\ last = [op |-> "load_initial_state", direction |-> 0, choice_index |-> 0,
               user_input |-> "", index |-> 0, variables |-> <<>>,
               active_paths |-> {}]
    /\ activated = {}
    /\ trip = NoTrip

\* The runs of one session: the graph it was loaded with, no chain due, and
\* no other session.
Alone ==
    /\ story = scenes
    /\ chains = <<>>
    /\ store = <<>>
    /\ sessions = <<>>
    /\ active = None

\* A session over the empty graph, for the runs that only build.
NoSession == scenes = <<>> /\ load_initial_state /\ Alone

\* The Back and Next buttons: change_scene(state, -1) and change_scene(state, 1).
Advance(direction) ==
    /\ Responsive
    /\ LET out == change_scene(direction)
       IN  /\ scenes' = out.scenes
           /\ index' = out.index
           /\ result' = out.result
    /\ last' = History("change_scene", direction, 0, "")
    /\ trip' = IF direction = 1
               THEN [stage |-> 1, origin |-> index, mid |-> index']
               ELSE IF trip.stage = 1
                    THEN [trip EXCEPT !.stage = 2]
                    ELSE NoTrip
    /\ UNCHANGED <<variables, variable_keys, active_paths, activated,
                   stored, builder_vars, effect_vars, session_vars>>

\* Mutant: the chosen path replaces the active set instead of joining it.
handle_choice_forgetting(choice_index) ==
    IF Len(scenes) = 0
    THEN [index |-> index, active_paths |-> active_paths, scenes |-> scenes,
          result |-> Raised]
    ELSE LET current_scene == scenes[index + 1] IN
         IF /\ TruthyList(current_scene.choices)
            /\ 0 <= choice_index
            /\ choice_index < Len(current_scene.choices[1])
         THEN LET chosen == current_scene.choices[1][choice_index + 1]
                  target_scene == scenes[chosen.next_scene_index + 1]
              IN  [index |-> chosen.next_scene_index,
                   active_paths |->
                       IF TruthyStr(target_scene.path)
                       THEN {target_scene.path[1]}
                       ELSE active_paths,
                   scenes |-> scenes,
                   result |-> render_scene(target_scene,
                                           chosen.next_scene_index,
                                           Len(scenes), variables,
                                           variable_keys)]
         ELSE LET out == change_scene(0)
              IN  [index |-> out.index, active_paths |-> active_paths,
                   scenes |-> out.scenes, result |-> out.result]

\* Mutant: a choice that leads to a scene without a path closes the paths
\* opened before.
handle_choice_resetting(choice_index) ==
    IF Len(scenes) = 0
    THEN [index |-> index, active_paths |-> active_paths, scenes |-> scenes,
          result |-> Raised]
    ELSE LET current_scene == scenes[index + 1] IN
         IF /\ TruthyList(current_scene.choices)
            /\ 0 <= choice_index
            /\ choice_index < Len(current_scene.choices[1])
         THEN LET chosen == current_scene.choices[1][choice_index + 1]
                  target_scene == scenes[chosen.next_scene_index + 1]
              IN  [index |-> chosen.next_scene_index,
                   active_paths |->
                       IF TruthyStr(target_scene.path)
                       THEN active_paths \cup {target_scene.path[1]}
                       ELSE {},
                   scenes |-> scenes,
                   result |-> render_scene(target_scene,
                                           chosen.next_scene_index,
                                           Len(scenes), variables,
                                           variable_keys)]
         ELSE LET out == change_scene(0)
              IN  [index |-> out.index, active_paths |-> active_paths,
                   scenes |-> out.scenes, result |-> out.result]

\* handle_choice(story_state, choice_index).
handle_choice(choice_index) ==
    IF Len(scenes) = 0
    THEN \* current_scene = scenes[story_state["index"]] raises
         [index |-> index, active_paths |-> active_paths, scenes |-> scenes,
          result |-> Raised]
    ELSE LET current_scene == scenes[index + 1] IN
         IF /\ TruthyList(current_scene.choices)
            /\ 0 <= choice_index
            /\ choice_index < Len(current_scene.choices[1])
         THEN LET chosen == current_scene.choices[1][choice_index + 1]
                  target_scene == scenes[chosen.next_scene_index + 1]
              IN  [index |-> chosen.next_scene_index,
                   active_paths |->
                       IF TruthyStr(target_scene.path)
                       THEN active_paths \cup {target_scene.path[1]}
                       ELSE active_paths,
                   scenes |-> scenes,
                   result |-> render_scene(target_scene,
                                           chosen.next_scene_index,
                                           Len(scenes), variables,
                                           variable_keys)]
         ELSE LET out == change_scene(0)
              IN  [index |-> out.index, active_paths |-> active_paths,
                   scenes |-> out.scenes, result |-> out.result]

\* variables[name] = value on a dict.
DictSet(d, name, value) ==
    [k \in DOMAIN d \cup {name} |-> IF k = name THEN value ELSE d[k]]

\* The insertion order of the keys of d after d[name] = value: a new key
\* goes last, a key that is overwritten keeps its place.
DictKeys(d, keys, name) == IF name \in DOMAIN d THEN keys ELSE Append(keys, name)

\* The body of handle_input with its three decisions as parameters: whether
\* an empty text is stored too, whether the store starts from an empty dict,
\* and whether the step to the next scene skips inaccessible scenes.
handle_input_variant(user_input, store_empty, fresh_dict, skipping) ==
    IF Len(scenes) = 0
    THEN [index |-> index, variables |-> variables, keys |-> variable_keys,
          scenes |-> scenes, result |-> Raised]
    ELSE LET current_scene == scenes[index + 1]
             new_index == IF skipping
                          THEN change_scene(1).index
                          ELSE Min(index + 1, Len(scenes) - 1)
             stores == /\ TruthyObj(current_scene.input_request)
                       /\ (user_input # "" \/ store_empty)
             name == current_scene.input_request[1].variable_name
             old == IF fresh_dict THEN <<>> ELSE variables
             old_keys == IF fresh_dict THEN <<>> ELSE variable_keys
             new_variables == IF stores
                              THEN DictSet(old, name, user_input)
                              ELSE variables
             new_keys == IF stores
                         THEN DictKeys(old, old_keys, name)
                         ELSE variable_keys
         IN  [index |-> new_index,
              variables |-> new_variables,
              keys |-> new_keys,
              scenes |-> scenes,
              result |-> render_scene(scenes[new_index + 1], new_index,
                                      Len(scenes), new_variables, new_keys)]

\* Mutant: an empty text is stored like any other.
handle_input_storing_empty(user_input) ==
    handle_input_variant(user_input, TRUE, FALSE, FALSE)

\* Mutant: the store replaces the dict by one holding only the new entry.
handle_input_fresh_dict(user_input) ==
    handle_input_variant(user_input, FALSE, TRUE, FALSE)

\* Mutant: the step to the next scene skips inaccessible scenes, as Next does.
handle_input_skipping(user_input) ==
    handle_input_variant(user_input, FALSE, FALSE, TRUE)

\* Mutant: the step to the next scene is not held at the last index.
handle_input_unclamped(user_input) ==
    IF Len(scenes) = 0
    THEN [index |-> index, variables |-> variables, keys |-> variable_keys,
          scenes |-> scenes, result |-> Raised]
    ELSE LET current_scene == scenes[index + 1]
             new_index == index + 1
             stores == TruthyObj(current_scene.input_request) /\ user_input # ""
             name == current_scene.input_request[1].variable_name
             new_variables == IF stores
                              THEN DictSet(variables, name, user_input)
                              ELSE variables
             new_keys == IF stores
                         THEN DictKeys(variables, variable_keys, name)
                         ELSE variable_keys
         IN  [index |-> new_index,
              variables |-> new_variables,
              keys |-> new_keys,
              scenes |-> scenes,
              result |-> IF new_index < Len(scenes)
                         THEN render_scene(scenes[new_index + 1], new_index,
                                           Len(scenes), new_variables, new_keys)
                         ELSE Raised]

\* Mutant: a stored answer uses its input request up: the scene that asked
\* loses the request.
handle_input_consuming(user_input) ==
    IF Len(scenes) = 0
    THEN [index |-> index, variables |-> variables, keys |-> variable_keys,
          scenes |-> scenes, result |-> Raised]
    ELSE LET current_scene == scenes[index + 1]
             new_index == Min(index + 1, Len(scenes) - 1)
             stores == TruthyObj(current_scene.input_request) /\ user_input # ""
             name == current_scene.input_request[1].variable_name
             new_variables == IF stores
                              THEN DictSet(variables, name, user_input)
                              ELSE variables
             new_keys == IF stores
                         THEN DictKeys(variables, variable_keys, name)
                         ELSE variable_keys
             new_scenes == IF stores
                           THEN [scenes EXCEPT ![index + 1].input_request = None]
                           ELSE scenes
         IN  [index |-> new_index,
              variables |-> new_variables,
              keys |-> new_keys,
              scenes |-> new_scenes,
              result |-> render_scene(new_scenes[new_index + 1], new_index,
                                      Len(scenes), new_variables, new_keys)]

\* handle_input(story_state, user_input).
handle_input(user_input) ==
    IF Len(scenes) = 0
    THEN \* current_scene = scenes[story_state["index"]] raises
         [index |-> index, variables |-> variables, keys |-> variable_keys,
          scenes |-> scenes, result |-> Raised]
    ELSE LET current_scene == scenes[index + 1]
             new_index == Min(index + 1, Len(scenes) - 1)
             stores == TruthyObj(current_scene.input_request) /\ user_input # ""
             name == current_scene.input_request[1].variable_name
             new_variables == IF stores
                              THEN DictSet(variables, name, user_input)
                              ELSE variables
             new_keys == IF stores
                         THEN DictKeys(variables, variable_keys, name)
                         ELSE variable_keys
         IN  [index |-> new_index,
              variables |-> new_variables,
              keys |-> new_keys,
              scenes |-> scenes,
              result |-> render_scene(scenes[new_index + 1], new_index,
                                      Len(scenes), new_variables, new_keys)]

\* The choice radio: handle_choice(state, choice_index).
SelectChoice(choice_index) ==
    /\ Responsive
    /\ LET out == handle_choice(choice_index)
       IN  /\ scenes' = out.scenes
           /\ index' = out.index
           /\ active_paths' = out.active_paths
           /\ result' = out.result
    /\ activated' = activated \cup (active_paths' \ active_paths)
    /\ trip' = NoTrip
    /\ last' = History("handle_choice", 0, choice_index, "")
    /\ UNCHANGED <<variables, variable_keys, stored, builder_vars,
                   effect_vars, session_vars>>

\* The submit button and the text box: handle_input(state, user_input).
SubmitInput(user_input) ==
    /\ Responsive
    /\ LET out == handle_input(user_input)
       IN  /\ scenes' = out.scenes
           /\ index' = out.index
           /\ variables' = out.variables
           /\ variable_keys' = out.keys
           /\ result' = out.result
    /\ last' = History("handle_input", 0, 0, user_input)
    /\ trip' = NoTrip
    /\ stored' = IF /\ ValidIndex(index)
                    /\ scenes[index + 1].input_request # None
                    /\ user_input # ""
                 THEN DictSet(stored,
                              scenes[index + 1].input_request[1].variable_name,
                              user_input)
                 ELSE stored
    /\ UNCHANGED <<active_paths, activated, builder_vars,
                   effect_vars, session_vars>>

\* The three chains of a navigation event that left the session at index
\* landed, none of them run yet.
NewChains(landed) ==
    [landed |-> landed,
     audio |-> [ran |-> FALSE, value |-> None],
     motors |-> [ran |-> FALSE, value |-> <<>>],
     pose |-> [ran |-> FALSE, value |-> None]]

\* A navigation event: its handler runs on the session's story_state, the
\* returned story_state becomes the session's, and its three chains are due.
Event(op, direction, choice_index, user_input, out) ==
    /\ Responsive
    /\ Len(chains) < MaxEvents
    /\ scenes' = out.scenes
    /\ index' = out.index
    /\ variables' = out.variables
    /\ variable_keys' = out.keys
    /\ active_paths' = out.active_paths
    /\ result' = out.result
    /\ last' = History(op, direction, choice_index, user_input)
    /\ chains' = Append(chains, NewChains(out.index))
    /\ UNCHANGED <<activated, trip, stored, story, builder_vars, session_vars>>

\* prev_btn.click and next_btn.click with their chains.
ClickEvent(direction) ==
    LET out == change_scene(direction)
    IN  Event("change_scene", direction, 0, "",
              [scenes |-> out.scenes, index |-> out.index,
               variables |-> variables, keys |-> variable_keys,
               active_paths |-> active_paths, result |-> out.result])

\* choice_radio.change with its chains.
ChoiceEvent(choice_index) ==
    LET out == handle_choice(choice_index)
    IN  Event("handle_choice", 0, choice_index, "",
              [scenes |-> out.scenes, index |-> out.index,
               variables |-> variables, keys |-> variable_keys,
               active_paths |-> out.active_paths, result |-> out.result])

\* input_submit_btn.click and user_input.submit with their chains.
InputEvent(user_input) ==
    LET out == handle_input(user_input)
    IN  Event("handle_input", 0, 0, user_input,
              [scenes |-> out.scenes, index |-> out.index,
               variables |-> out.variables, keys |-> out.keys,
               active_paths |-> active_paths, result |-> out.result])

\* A chain of event k runs: the retrieval reads the session's story_state as
\* it is now.
Chain(k, ran) ==
    /\ Responsive
    /\ k \in 1 .. Len(chains)
    /\ chains' = [chains EXCEPT ![k] = ran]
    /\ UNCHANGED <<nav_vars, story, builder_vars, session_vars>>

AudioChain(k) ==
    /\ k \in 1 .. Len(chains)
    /\ ~chains[k].audio.ran
    /\ Chain(k, [chains[k] EXCEPT !.audio = [ran |-> TRUE, value |-> get_scene_audio]])

MotorChain(k) ==
    /\ k \in 1 .. Len(chains)
    /\ ~chains[k].motors.ran
    /\ Chain(k, [chains[k] EXCEPT !.motors = [ran |-> TRUE,
                                           value |-> get_scene_motor_packets]])

PoseChain(k) ==
    /\ k \in 1 .. Len(chains)
    /\ ~chains[k].pose.ran
    /\ Chain(k, [chains[k] EXCEPT !.pose = [ran |-> TRUE,
                                         value |-> get_scene_robot_pose]])

\* What a retrieval handed to its output component.
Retrieved(value) == [status |-> "retrieved", value |-> value]

\* A retrieval called on the session's story_state.
Retrieve(op, value) ==
    /\ Responsive
    /\ result' = Retrieved(value)
    /\ last' = History(op, 0, 0, "")
    /\ UNCHANGED <<scenes, index, variables, variable_keys, active_paths,
                   activated, trip, stored, builder_vars, effect_vars,
                   session_vars>>

GetSceneAudio == Retrieve("get_scene_audio", get_scene_audio)

GetSceneMotorPackets ==
    Retrieve("get_scene_motor_packets", get_scene_motor_packets)

GetSceneRobotPose == Retrieve("get_scene_robot_pose", get_scene_robot_pose)

\* ---------------------------------------------------------------- sessions

\* The browser sessions that are followed.
Sessions == {"s1", "s2"}

\* A variables dict with its keys in insertion order, and a set of path tags.
VariablesObject(items, keys) == [kind |-> "dict", items |-> items, keys |-> keys]

SetObject(items) == [kind |-> "set", items |-> items]

\* Graphs for the runs of several sessions.
SessionGraphs ==
    UNION {[1 .. n -> NavScenes(n)] : n \in 1 .. MaxEffectScenes}

\* Mutant: the dict and the set of a new story_state are those of the first
\* story_state made, as module-level defaults would be.
new_story_state_shared(h) ==
    LET h1 == Append(h, ListObject(story))
    IN  IF Len(h) >= 3
        THEN [heap |-> h1,
              state |-> [scenes |-> Len(h1), index |-> 0, variables |-> 2,
                         active_paths |-> 3]]
        ELSE LET h2 == Append(h1, VariablesObject(<<>>, <<>>))
                 h3 == Append(h2, SetObject({}))
             IN  [heap |-> h3,
                  state |-> [scenes |-> Len(h1), index |-> 0,
                             variables |-> Len(h2), active_paths |-> Len(h3)]]

\* scenes = build_sample_story() and the story_state made of it: a new list
\* of scenes, a new dict and a new set.
new_story_state(h) ==
    LET h1 == Append(h, ListObject(story))
        h2 == Append(h1, VariablesObject(<<>>, <<>>))
        h3 == Append(h2, SetObject({}))
    IN  [heap |-> h3,
         state |-> [scenes |-> Len(h1), index |-> 0, variables |-> Len(h2),
                    active_paths |-> Len(h3)]]

\* What a story_state holds, its objects read from the store.
SessionView(h, state) ==
    [scenes |-> h[state.scenes].items,
     index |-> state.index,
     variables |-> h[state.variables].items,
     keys |-> h[state.variables].keys,
     active_paths |-> h[state.active_paths].items]

\* The handler at work is given this story_state and returns res.
Given(h, state, res) ==
    LET view == SessionView(h, state)
    IN  /\ scenes' = view.scenes
        /\ index' = view.index
        /\ variables' = view.variables
        /\ variable_keys' = view.keys
        /\ active_paths' = view.active_paths
        /\ result' = res

\* demo.load for session s: load_initial_state makes its story_state.
Load(s) ==
    /\ sessions[s] = None
    /\ LET new == new_story_state(store)
           graph == new.heap[new.state.scenes].items
           res == IF TruthyList(Some(graph))
                  THEN render_scene(graph[1], 0, Len(graph), <<>>, <<>>)
                  ELSE NoContent
       IN  /\ store' = new.heap
           /\ sessions' = [sessions EXCEPT
                              ![s] = Some([state |-> new.state, result |-> res])]
           /\ Given(new.heap, new.state, res)
    /\ active' = Some(s)
    /\ last' = [op |-> "load_initial_state", direction |-> 0, choice_index |-> 0,
                user_input |-> "", index |-> 0, variables |-> <<>>,
                active_paths |-> {}]
    /\ UNCHANGED <<activated, trip, stored, builder_vars, effect_vars>>

\* An event of another session comes up: its handler is given that session's
\* story_state (inputs=story_state).
Switch(s) ==
    /\ active # Some(s)
    /\ sessions[s] # None
    /\ Given(store, sessions[s][1].state, sessions[s][1].result)
    /\ active' = Some(s)
    /\ last' = History("inputs", 0, 0, "")
    /\ UNCHANGED <<store, sessions, activated, trip, stored, builder_vars,
                   effect_vars>>

\* Where a handler's assignments to the story_state of session s go: the
\* index into the story_state, a stored variable into the dict the
\* story_state refers to, and a changed set of paths into a new set; the
\* old set is dropped and its place reused unless another session refers
\* to it.
Written(s, out) ==
    LET state == sessions[s][1].state
        h1 == IF out.variables # variables \/ out.keys # variable_keys
              THEN [store EXCEPT ![state.variables] =
                       VariablesObject(out.variables, out.keys)]
              ELSE store
        shared == \E t \in Sessions \ {s} :
                     /\ sessions[t] # None
                     /\ sessions[t][1].state.active_paths = state.active_paths
        copied == out.active_paths # active_paths
        h2 == IF ~copied
              THEN h1
              ELSE IF shared
                   THEN Append(h1, SetObject(out.active_paths))
                   ELSE [h1 EXCEPT ![state.active_paths] =
                            SetObject(out.active_paths)]
    IN  [heap |-> h2,
         state |-> [state EXCEPT
                      !.index = out.index,
                      !.active_paths = IF copied /\ shared THEN Len(h2) ELSE @]]

\* A handler runs on the story_state of the session it was called for.
Handle(s, op, direction, choice_index, user_input, out) ==
    /\ active = Some(s)
    /\ Responsive
    /\ LET new == Written(s, out)
       IN  /\ store' = new.heap
           /\ sessions' = [sessions EXCEPT
                              ![s] = Some([state |-> new.state,
                                           result |-> out.result])]
    /\ scenes' = out.scenes
    /\ index' = out.index
    /\ variables' = out.variables
    /\ variable_keys' = out.keys
    /\ active_paths' = out.active_paths
    /\ result' = out.result
    /\ last' = History(op, direction, choice_index, user_input)
    /\ active' = active
    /\ UNCHANGED <<activated, trip, stored, builder_vars, effect_vars>>

SessionAdvance(s, direction) ==
    LET out == change_scene(direction)
    IN  Handle(s, "change_scene", direction, 0, "",
               [scenes |-> out.scenes, index |-> out.index,
                variables |-> variables, keys |-> variable_keys,
                active_paths |-> active_paths, result |-> out.result])

SessionChoice(s, choice_index) ==
    LET out == handle_choice(choice_index)
    IN  Handle(s, "handle_choice", 0, choice_index, "",
               [scenes |-> out.scenes, index |-> out.index,
                variables |-> variables, keys |-> variable_keys,
                active_paths |-> out.active_paths, result |-> out.result])

SessionInput(s, user_input) ==
    LET out == handle_input(user_input)
    IN  Handle(s, "handle_input", 0, 0, user_input,
               [scenes |-> out.scenes, index |-> out.index,
                variables |-> out.variables, keys |-> out.keys,
                active_paths |-> active_paths, result |-> out.result])

\* ------------------------------------------------------------ sample story

\* The calls of build_sample_story in program order, one tuple per call: the
\* name and the arguments that matter. set_characters is one entry per
\* definition of its list; "len" is an assignment "<local> =
\* len(builder._states)", "clone_push" the _clone_state/_push_state pair
\* after the input request, "patch" a deepcopy patch of an emitted state,
\* "build" the return. A line of dialogue is shortened to its placeholder,
\* or to "..." when it has none; scales are in tenths, poses in hundredths.
build_sample_story ==
    << <<"set_characters",
         [name |-> "Ari", image_url |-> "reachy-mini-cartoon.svg",
          animated |-> FALSE]>>,
       <<"set_characters",
         [name |-> "Bo", image_url |-> "ReachyMini_emotions_happy.svg",
          animated |-> TRUE]>>,
       <<"set_background", "workshop_bg.png">>,
       <<"set_stage", "p60-back-cover.png">>,
       <<"narration", "...">>,
       <<"set_stage", "p3.png">>,
       <<"request_input", "player_name">>,
       <<"clone_push">>,
       <<"show_character", "Ari", "left">>,
       <<"play_sound", "wake_up.wav">>,
       <<"dialogue", "Ari", "{player_name}">>,
       <<"show_character", "Bo", "right">>,
       <<"dialogue", "Bo", "{player_name}">>,
       <<"dialogue", "Ari", "...">>,
       \* accept branch
       <<"len", "accept_index">>,
       <<"set_path", Some("accept")>>,
       <<"dialogue", "Bo", "{player_name}">>,
       <<"move_character", "Ari", "center">>,
       <<"narration", "...">>,
       <<"set_camera", TRUE>>,
       <<"dialogue", "Ari", "{player_name}">>,
       <<"narration", "...">>,
       <<"set_camera", FALSE>>,
       <<"set_voice", TRUE>>,
       <<"dialogue", "Bo", "...">>,
       <<"narration", "...">>,
       <<"set_voice", FALSE>>,
       <<"set_motors", TRUE>>,
       <<"dialogue", "Ari", "...">>,
       <<"narration", "...">>,
       <<"send_motor_command", 1, 90>>,
       <<"dialogue", "Ari", "...">>,
       <<"send_motor_commands", <<<<1, 180>>, <<2, 90>>>> >>,
       <<"dialogue", "Ari", "...">>,
       <<"play_sound", "confused1.wav">>,
       <<"dialogue", "Ari", "...">>,
       <<"set_motors", FALSE>>,
       <<"set_robot", TRUE>>,
       <<"dialogue", "Bo", "...">>,
       <<"narration", "...">>,
       <<"send_robot_pose", 2, 0, 0, -20, 20>>,
       <<"dialogue", "Ari", "...">>,
       <<"send_robot_pose", -4, 10, 0, -30, 80>>,
       <<"dialogue", "Bo", "...">>,
       <<"set_robot", FALSE>>,
       <<"set_stage", "p3.png">>,
       <<"dialogue", "Ari", "...">>,
       <<"narration", "...">>,
       <<"set_background_blur", 8>>,
       <<"set_stage_blur", 3>>,
       <<"dialogue", "Ari", "...">>,
       <<"narration", "...">>,
       <<"set_background_blur", 0>>,
       <<"set_stage_blur", 0>>,
       <<"set_stage", "">>,
       <<"set_character_animation", "Bo", "shake">>,
       <<"dialogue", "Bo", "...">>,
       <<"set_character_animation", "Bo", "bounce">>,
       <<"dialogue", "Bo", "...">>,
       <<"set_character_animation", "Bo", "">>,
       <<"set_character_animation", "Ari", "pulse">>,
       <<"dialogue", "Ari", "...">>,
       <<"set_character_animation", "Ari", "">>,
       <<"set_character_scale", "Ari", 15>>,
       <<"dialogue", "Ari", "...">>,
       <<"set_character_scale", "Bo", 7>>,
       <<"dialogue", "Bo", "...">>,
       <<"set_character_scale", "Ari", 10>>,
       <<"set_character_scale", "Bo", 10>>,
       <<"set_motors", FALSE>>,
       <<"dialogue", "Ari", "...">>,
       <<"dialogue", "Bo", "...">>,
       <<"dialogue", "Ari", "{player_name}">>,
       \* Follow Ari sub-branch
       <<"len", "follow_ari_index">>,
       <<"set_path", Some("accept.follow_ari")>>,
       <<"dialogue", "Ari", "...">>,
       <<"hide_character", "Bo">>,
       <<"move_character", "Ari", "center">>,
       <<"set_background", "p3.png">>,
       <<"narration", "...">>,
       <<"dialogue", "Ari", "...">>,
       <<"set_character_animation", "Ari", "pulse">>,
       <<"send_motor_command", 1, 45>>,
       <<"dialogue", "Ari", "...">>,
       <<"set_character_animation", "Ari", "">>,
       <<"narration", "...">>,
       <<"dialogue", "Ari", "{player_name}">>,
       <<"play_sound", "wake_up.wav">>,
       <<"narration", "...">>,
       \* Follow Bo sub-branch
       <<"len", "follow_bo_index">>,
       <<"set_path", Some("accept.follow_bo")>>,
       <<"dialogue", "Bo", "...">>,
       <<"hide_character", "Ari">>,
       <<"move_character", "Bo", "center">>,
       <<"set_background", "workshop_bg.png">>,
       <<"narration", "...">>,
       <<"dialogue", "Bo", "...">>,
       <<"set_character_animation", "Bo", "bounce">>,
       <<"send_motor_commands", <<<<1, 135>>, <<2, 135>>>> >>,
       <<"dialogue", "Bo", "...">>,
       <<"set_character_animation", "Bo", "shake">>,
       <<"narration", "...">>,
       <<"dialogue", "Bo", "{player_name}">>,
       <<"set_character_animation", "Bo", "">>,
       <<"play_sound", "wake_up.wav">>,
       <<"narration", "...">>,
       \* the second choice, put on the state before the sub-branches
       <<"patch", "follow_ari_index",
         <<"follow_ari_index", "follow_bo_index">>, Some("accept")>>,
       \* decline branch
       <<"len", "decline_index">>,
       <<"set_path", Some("decline")>>,
       <<"dialogue", "Ari", "{player_name}">>,
       <<"hide_character", "Bo">>,
       <<"dialogue", "Ari", "...">>,
       <<"narration", "...">>,
       \* the first choice, put on the state before the branches
       <<"patch", "accept_index", <<"accept_index", "decline_index">>, None>>,
       <<"build">> >>

\* What the call c of build_sample_story does to the heap and the builder.
\* A patch is of builder._states[<local> - 1], the state at position <local>
\* of the sequence, and its choices target the values of two locals.
Perform(c) ==
    CASE c[1] = "set_characters" -> set_characters(c[2])
      [] c[1] = "set_background" -> set_background(c[2], "")
      [] c[1] = "set_stage" -> set_stage(c[2])
      [] c[1] = "set_camera" -> set_camera(c[2])
      [] c[1] = "set_voice" -> set_voice(c[2])
      [] c[1] = "set_motors" -> set_motors(c[2])
      [] c[1] = "set_robot" -> set_robot(c[2])
      [] c[1] = "set_background_blur" -> set_background_blur(c[2])
      [] c[1] = "set_stage_blur" -> set_stage_blur(c[2])
      [] c[1] = "set_path" -> set_path(c[2])
      [] c[1] = "narration" -> narration(c[2])
      [] c[1] = "dialogue" -> dialogue(c[2], c[3])
      [] c[1] = "request_input" -> request_input(c[2])
      [] c[1] = "clone_push" ->
            LET s == _clone_state
            IN  _push_state(s.heap, [s.state EXCEPT !.input_request = None])
      [] c[1] = "show_character" -> show_character(c[2], c[3])
      [] c[1] = "hide_character" -> hide_character(c[2])
      [] c[1] = "move_character" -> move_character(c[2], c[3])
      [] c[1] = "set_character_animation" -> set_character_animation(c[2], c[3])
      [] c[1] = "set_character_scale" -> set_character_scale(c[2], c[3])
      [] c[1] = "send_motor_command" -> send_motor_command(c[2], c[3])
      [] c[1] = "send_motor_commands" -> send_motor_commands(c[2])
      [] c[1] = "send_robot_pose" ->
            send_robot_pose(c[2], c[3], c[4], c[5], c[6])
      [] c[1] = "play_sound" -> play_sound(c[2])
      [] c[1] = "patch" ->
            patch_choice_scene(locals[c[2]],
                               <<locals[c[3][1]], locals[c[3][2]]>>, c[4])
      [] c[1] \in {"len", "build"} -> [heap |-> heap, builder |-> builder]

\* build_sample_story runs its next call; command.count is the number of
\* calls done.
Author ==
    /\ command.count < Len(build_sample_story)
    /\ LET c == build_sample_story[command.count + 1]
           out == Perform(c)
       IN  /\ heap' = out.heap
           /\ builder' = out.builder
           /\ command' = [name |-> c[1], args |-> c, count |-> command.count + 1]
           /\ locals' = IF c[1] = "len"
                        THEN DictSet(locals, c[2], Len(builder._states))
                        ELSE locals
           /\ returned' = IF c[1] = "build" THEN Some(build) ELSE returned
           /\ at_build' = IF c[1] = "build"
                          THEN Views(heap, builder._states)
                          ELSE at_build
    /\ before' = Views(heap, builder._states)
    /\ UNCHANGED <<settings, look, unpatched>>
    /\ UNCHANGED <<nav_vars, effect_vars, session_vars>>

\* A SceneState of the builder as navigation and rendering read it.
Scene(view) ==
    SceneState(view.path, view.choices, view.input_request, view.text)

\* load_initial_state over the graph build_sample_story returned: the page
\* is loaded once.
LoadSampleStory ==
    /\ returned # None
    /\ last.op = "none"
    /\ scenes' = [i \in 1 .. Len(StoryGraph) |-> Scene(StoryGraph[i])]
    /\ index' = 0
    /\ variables' = <<>>
    /\ variable_keys' = <<>>
    /\ active_paths' = {}
    /\ result' = IF Len(scenes') > 0
                 THEN render_scene(scenes'[1], 0, Len(scenes'), <<>>, <<>>)
                 ELSE NoContent
    /\ stored' = <<>>
    /\ last' = [op |-> "load_initial_state", direction |-> 0,
                choice_index |-> 0, user_input |-> "", index |-> 0,
                variables |-> <<>>, active_paths |-> {}]
    /\ activated' = {}
    /\ trip' = NoTrip
    /\ story' = scenes'
    /\ UNCHANGED <<chains, builder_vars, session_vars>>

\* The render descriptor of the scene shown.
Shown == result.status = "rendered"

\* The player presses Back or Next where the descriptor enables them.
PlayerAdvance(direction) ==
    /\ last.op # "none"
    /\ Shown
    /\ result.nav_enabled
    /\ Advance(direction)

\* The player picks an entry of the choice radio where choices are offered.
PlayerChoice(choice_index) ==
    /\ last.op # "none"
    /\ Shown
    /\ result.has_choices
    /\ 0 <= choice_index
    /\ choice_index < Len(scenes[index + 1].choices[1])
    /\ SelectChoice(choice_index)

\* The player submits a text where input is requested.
PlayerInput(user_input) ==
    /\ last.op # "none"
    /\ Shown
    /\ result.has_input
    /\ SubmitInput(user_input)

\* Before the page is loaded there is no story_state.
NotLoaded ==
    /\ scenes = <<>>
    /\ index = 0
    /\ variables = <<>>
    /\ variable_keys = <<>>
    /\ active_paths = {}
    /\ result = NoContent
    /\ stored = <<>>
    /\ last = [op |-> "none", direction |-> 0, choice_index |-> 0,
               user_input |-> "", index |-> 0, variables |-> <<>>,
               active_paths |-> {}]
    /\ activated = {}
    /\ trip = NoTrip

InitStory == BuilderNew /\ NotLoaded /\ Alone

\* The sample story is built and loaded, then played with the controls the
\* descriptor enables.
NextStory ==
    \/ Author
    \/ LoadSampleStory
    \/ \E direction \in {-1, 1} : PlayerAdvance(direction)
    \/ \E choice_index \in 0 .. 1 : PlayerChoice(choice_index)
    \/ \E user_input \in InputValues : PlayerInput(user_input)

SpecStory == InitStory /\ [][NextStory]_vars

\* The same, played by a player who only moves forward.
NextForward ==
    \/ Author
    \/ LoadSampleStory
    \/ PlayerAdvance(1)
    \/ \E choice_index \in 0 .. 1 : PlayerChoice(choice_index)
    \/ \E user_input \in InputValues : PlayerInput(user_input)

\* The program runs on and the player keeps using an enabled control.
SpecForward == InitStory /\ [][NextForward]_vars /\ WF_vars(NextForward)

Init == scenes \in StoryGraphs /\ load_initial_state /\ BuilderNew /\ Alone

Next ==
    \/ \E direction \in {-1, 1} : Advance(direction)
    \/ \E choice_index \in ChoiceIndices : SelectChoice(choice_index)
    \/ \E user_input \in InputValues : SubmitInput(user_input)

Spec == Init /\ [][Next]_vars

\* Sessions over the graphs whose scenes have texts.
InitText ==
    scenes \in TextGraphs /\ load_initial_state /\ BuilderNew /\ Alone

NextText ==
    \/ \E direction \in {-1, 1} : Advance(direction)
    \/ SelectChoice(0)
    \/ \E user_input \in TextInputValues : SubmitInput(user_input)

SpecText == InitText /\ [][NextText]_vars

\* The author's side: commands issued to a new builder.
InitBuilder == BuilderNew /\ NoSession

NextBuilder ==
    \/ SetCharacters
    \/ ShowCharacter
    \/ HideCharacter
    \/ MoveCharacter
    \/ ChangeCharacterSprite
    \/ SetCharacterAnimation
    \/ SetCharacterScale
    \/ SendMotorCommand
    \/ AddChoice

SpecBuilder == InitBuilder /\ [][NextBuilder]_vars

\* The author writes scenes, attaches and patches choices, and builds.
NextBuild ==
    \/ Narration
    \/ RequestInput
    \/ AddChoiceAnywhere
    \/ PatchChoiceScene
    \/ Build

SpecBuild == InitBuilder /\ [][NextBuild]_vars

\* The author puts characters on stage, attaches motor commands, writes
\* scenes and patches emitted ones.
NextPatch ==
    \/ SetCharacters
    \/ ShowCharacter
    \/ SendMotorCommand
    \/ Narration
    \/ RequestInput
    \/ PatchChoiceScene

SpecPatch == InitBuilder /\ [][NextPatch]_vars

\* The author writes dialogue, asks for input, attaches side effects and
\* choices, and shows characters, registered or not.
NextEmit ==
    \/ SetCharacters
    \/ ShowCharacter
    \/ Dialogue
    \/ Narration
    \/ RequestInput
    \/ SendMotorCommand
    \/ SendMotorCommands
    \/ SendRobotPose
    \/ PlaySound
    \/ AddChoice

SpecEmit == InitBuilder /\ [][NextEmit]_vars

\* The author sets the fields that the next scenes take over.
NextSettings ==
    \/ SetCamera
    \/ SetVoice
    \/ SetMotors
    \/ SetRobot
    \/ SetBackgroundBlur
    \/ SetStage
    \/ SetStageBlur
    \/ SetPath
    \/ Narration
    \/ SetBackground

SpecSettings == InitBuilder /\ [][NextSettings]_vars

\* The author registers characters and changes what the stage shows.
NextStage ==
    \/ SetCharacters
    \/ SetBackground
    \/ ShowCharacter
    \/ HideCharacter
    \/ MoveCharacter
    \/ ChangeCharacterSprite
    \/ SetCharacterAnimation
    \/ SetCharacterScale
    \/ Narration

SpecStage == InitBuilder /\ [][NextStage]_vars

\* ------------------------------------------------------------------ claims

\* The scene at Python index i.
SceneAt(i) == scenes[i + 1]

\* Scene i is accessible under the path set ps: its path is absent or in ps.
PathOpen(i, ps) == SceneAt(i).path = None \/ SceneAt(i).path[1] \in ps

\* The accessible indices strictly beyond i in direction d.
OpenBeyond(i, d, ps) ==
    {j \in 0 .. Len(scenes) - 1 : (j - i) * d > 0 /\ PathOpen(j, ps)}

\* The nearest accessible index strictly beyond i in direction d, i if none.
NearestOpen(i, d, ps) ==
    IF OpenBeyond(i, d, ps) = {}
    THEN i
    ELSE CHOOSE j \in OpenBeyond(i, d, ps) :
            \A k \in OpenBeyond(i, d, ps) : (j - i) * d <= (k - i) * d

AfterAdvance == last.op = "change_scene"

AfterChoice == last.op = "handle_choice"

AfterInput == last.op = "handle_input"

\* C1: after advance(d), d in {-1, +1}, currentIndex is the nearest index
\* strictly beyond the old currentIndex in direction d whose scene is
\* accessible, and the old currentIndex when there is none; the path of the
\* scene being left plays no part.
C1_AdvanceNearestAccessible ==
    AfterAdvance => index = NearestOpen(last.index, last.direction, active_paths)

\* C1 witness: an advance left a scene that is itself inaccessible and
\* skipped an inaccessible scene on its way.
C1_Witness ==
    /\ AfterAdvance
    /\ Len(scenes) > 0
    /\ ~PathOpen(last.index, active_paths)
    /\ (index - last.index > 1 \/ last.index - index > 1)

\* C2: advance never moves currentIndex to a scene whose path is X unless an
\* earlier selectChoice of the session has put X into activePaths.
C2_AdvanceNeedsActivation ==
    (AfterAdvance /\ index # last.index /\ SceneAt(index).path # None)
        => SceneAt(index).path[1] \in activated

\* C2 witness: an advance landed on a scene with a path tag.
C2_Witness ==
    AfterAdvance /\ index # last.index /\ SceneAt(index).path # None


\* The choice handle_choice was given is one the scene it ran on offers.
ChoiceInRange ==
    /\ ValidIndex(last.index)
    /\ SceneAt(last.index).choices # None
    /\ 0 <= last.choice_index
    /\ last.choice_index < Len(SceneAt(last.index).choices[1])

\* The target index of the choice handle_choice was given.
ChosenTarget ==
    SceneAt(last.index).choices[1][last.choice_index + 1].next_scene_index

\* C3: selectChoice(k) with k in range of the scene's choice list sets
\* currentIndex to the choice's target index; a non-absent path of the target
\* scene is in activePaths afterwards; every path active before still is.
C3_ChoiceJumpsAndActivates ==
    (AfterChoice /\ ChoiceInRange) =>
        /\ index = ChosenTarget
        /\ SceneAt(ChosenTarget).path # None
              => SceneAt(ChosenTarget).path[1] \in active_paths
        /\ last.active_paths \subseteq active_paths

\* C4: on a non-empty graph, selectChoice(k) on a scene without choices or
\* with k out of range leaves currentIndex, variables and activePaths
\* unchanged, reports no error and returns the render of the current scene.
C4_BadChoiceRerenders ==
    (AfterChoice /\ Len(scenes) > 0 /\ ~ChoiceInRange) =>
        /\ index = last.index
        /\ variables = last.variables
        /\ active_paths = last.active_paths
        /\ result.status = "rendered"
        /\ result.index = index

\* handle_input ran on a scene with an input request and got a non-empty text.
InputStored ==
    /\ ValidIndex(last.index)
    /\ SceneAt(last.index).input_request # None
    /\ last.user_input # ""

\* The name the input request of the scene handle_input ran on stores under.
RequestedName == SceneAt(last.index).input_request[1].variable_name

\* C5: submitInput(value) stores variables[variableName] = value, over any
\* earlier value, exactly when the current scene has an inputRequest and
\* value is non-empty; otherwise variables is unchanged.
C5_InputStoresExactly ==
    AfterInput =>
        IF InputStored
        THEN /\ RequestedName \in DOMAIN variables
             /\ variables[RequestedName] = last.user_input
        ELSE variables = last.variables

\* C5 witness: a submitInput overwrote an earlier, different value.
C5_Witness ==
    /\ AfterInput
    /\ InputStored
    /\ RequestedName \in DOMAIN last.variables
    /\ last.variables[RequestedName] # last.user_input
    /\ variables[RequestedName] = last.user_input

\* C6: on a non-empty graph submitInput sets currentIndex to
\* min(currentIndex + 1, lastIndex), whatever was stored, requested or
\* accessible.
C6_InputStepsByOne ==
    (AfterInput /\ Len(scenes) > 0) =>
        index = Min(last.index + 1, Len(scenes) - 1)

\* C6 witness: a submitInput on a scene without an input request stepped
\* onto an inaccessible scene.
C6_Witness ==
    /\ AfterInput
    /\ Len(scenes) > 0
    /\ SceneAt(last.index).input_request = None
    /\ index = last.index + 1
    /\ ~PathOpen(index, active_paths)

\* C7: activePaths grows monotonically: a path active before an operation is
\* active after it, hence in every later state.
C7_ActivePathsMonotone == last.active_paths \subseteq active_paths

\* C7 witness: a selectChoice added a path to a non-empty activePaths.
C7_Witness ==
    /\ AfterChoice
    /\ last.active_paths # {}
    /\ active_paths # last.active_paths
    /\ last.active_paths \subseteq active_paths

\* C8: variables never loses a key: a key present before an operation is
\* present after it, hence in every later state.
C8_VariablesKeepKeys == DOMAIN last.variables \subseteq DOMAIN variables

\* C8 witness: a submitInput added a key to a non-empty variables.
C8_Witness ==
    /\ AfterInput
    /\ DOMAIN last.variables # {}
    /\ DOMAIN variables # DOMAIN last.variables
    /\ DOMAIN last.variables \subseteq DOMAIN variables

\* A Next press from an accessible scene was directly followed by a Back press.
RoundTripDone ==
    /\ trip.stage = 2
    /\ ValidIndex(trip.origin)
    /\ PathOpen(trip.origin, active_paths)

\* C9 as stated: advance(+1) then advance(-1) from an accessible index
\* returns to it, except at the graph boundaries (the first and the last
\* index), where advance(+1) at the last index is idempotent.
C9_RoundTripExceptAtBoundaries ==
    RoundTripDone =>
        /\ trip.origin \notin {0, Len(scenes) - 1} => index = trip.origin
        /\ trip.origin = Len(scenes) - 1 => trip.mid = trip.origin

\* C9 amended: advance(+1) then advance(-1) from an accessible index returns
\* to it whenever an accessible scene lies beyond it; when none does (the
\* last index, or only inaccessible scenes follow) advance(+1) is idempotent
\* and the advance(-1) ends at the nearest accessible earlier index, or at
\* the original index if there is none.
C9_RoundTripWhereNextMoves ==
    RoundTripDone =>
        IF OpenBeyond(trip.origin, 1, active_paths) # {}
        THEN index = trip.origin
        ELSE /\ trip.mid = trip.origin
             /\ index = NearestOpen(trip.origin, -1, active_paths)

\* C9 witness: a round trip whose advance(+1) skipped an inaccessible scene
\* came back to where it started.
C9_Witness ==
    /\ RoundTripDone
    /\ trip.mid - trip.origin > 1
    /\ index = trip.origin


\* The addresses of the objects snapshot i refers to: its characters dict,
\* the sprites in it, its motor_commands list and its choices list.
Parts(i) ==
    LET state == builder._states[i]
        items == heap[state.characters].items
    IN  {state.characters, state.motor_commands}
            \cup {items[n] : n \in DOMAIN items}
            \cup (IF state.choices = None THEN {} ELSE {state.choices[1]})

\* C10: no two emitted snapshots share a characters mapping, a sprite
\* record, a motor-command list or a choice list, and a command leaves every
\* field of every snapshot emitted before it unchanged, except add_choice,
\* which changes only the choices of the last snapshot.
C10_NoAliasing ==
    /\ \A i, j \in 1 .. Len(builder._states) :
          i # j => Parts(i) \cap Parts(j) = {}
    /\ \A i \in 1 .. Len(before) :
          IF command.name = "add_choice" /\ i = Len(before)
          THEN [View(heap, builder._states[i]) EXCEPT
                   !.choices = before[i].choices] = before[i]
          ELSE View(heap, builder._states[i]) = before[i]

\* C10 witness: a command changed a registered character in the snapshot it
\* emitted, after a snapshot that shows the character differently.
C10_Witness ==
    /\ Len(builder._states) >= 2
    /\ command.name \in {"show_character", "hide_character", "move_character",
                         "change_character_sprite", "set_character_animation",
                         "set_character_scale"}
    /\ \E n \in Names :
          /\ n \in DOMAIN before[1].characters
          /\ View(heap, builder._states[2]).characters[n] # before[1].characters[n]

\* Every choice of every snapshot of graph targets a scene of graph.
TargetsValid(graph) ==
    \A i \in 1 .. Len(graph) :
        graph[i].choices # None =>
            \A k \in 1 .. Len(graph[i].choices[1]) :
                LET t == graph[i].choices[1][k].next_scene_index
                IN  0 <= t /\ t < Len(graph)

\* C11: build() fails with BrokenReferenceError whenever a Choice of an
\* emitted snapshot targets an index < 0 or >= the number of snapshots, so
\* every story graph build() returns has only Choices with valid targets.
C11_BuildRejectsBrokenReferences ==
    command.name = "build" => (returned # None => TargetsValid(StoryGraph))

\* The last command was issued after build() had returned.
AfterBuild == returned # None /\ command.name # "build"

\* C12: builder commands issued after build() have no effect on the story
\* graph build() returned: its length and every snapshot in it stay as they
\* were at the time of the call.
C12_BuiltGraphKeepsValue == returned # None => StoryGraph = at_build

\* The snapshots the last command appended.
Emitted == Len(builder._states) - Len(before)

\* The fields of a snapshot that the set_* commands decide.
SettingsOf(state) == [f \in DOMAIN NoSettings |-> state[f]]

\* C13: the eight set_* commands append no snapshot and leave every emitted
\* snapshot unchanged, and every snapshot emitted afterwards carries, for
\* each of their fields, the value of the latest such command (the initial
\* default if none).
C13_SettingsTakeEffectOnNextSnapshot ==
    /\ command.name \in DOMAIN SetterField =>
          Views(heap, builder._states) = before
    /\ Emitted = 1 =>
          SettingsOf(builder._states[Len(builder._states)]) = settings

\* C13 witness: a snapshot was emitted after a field had been set twice, and
\* it carries a path and the camera flag the second command gave.
C13_Witness ==
    /\ Emitted = 1
    /\ Len(builder._states) = 2
    /\ builder._states[1].path = None
    /\ builder._states[2].path = Some("a")
    /\ builder._states[2].stage_url = "p3.png" \/ builder._states[2].show_camera

\* The background and the sprites a snapshot shows.
LookOf(h, state) ==
    [background_url |-> state.background_url,
     background_label |-> state.background_label,
     characters |-> View(h, state).characters]

\* C14: each emitted snapshot's background url and label are those of the
\* latest preceding set_background (the defaults if none), and each
\* registered character's visible, position, image, animation and scale in
\* it are those set by the latest preceding commands for that character
\* (the registration defaults if none).
C14_VisualStateInherited ==
    Emitted = 1 => LookOf(heap, builder._states[Len(builder._states)]) = look

\* C14 witness: the third snapshot still shows what the commands of the
\* first two asked for: a background and a visible character.
C14_Witness ==
    /\ Emitted = 1
    /\ Len(builder._states) = 3
    /\ command.name \notin {"set_background", "show_character"}
    /\ builder._states[3].background_url # DEFAULT_BACKGROUND
    /\ \E n \in Names :
          /\ n \in DOMAIN look.characters
          /\ View(heap, builder._states[3]).characters[n].visible

\* C15: add_choice(text, target) appends the Choice at the end of the choice
\* list of the most recently emitted snapshot, creating the list when absent
\* and keeping the order of earlier calls; it emits no snapshot, changes no
\* other snapshot, and does nothing when no snapshot has been emitted.
C15_AddChoiceAppendsToLast ==
    command.name = "add_choice" =>
        LET now == Views(heap, builder._states)
            n == Len(before)
        IN  /\ Len(now) = n
            /\ \A i \in 1 .. n - 1 : now[i] = before[i]
            /\ n > 0 =>
                  /\ now[n] = [before[n] EXCEPT !.choices = now[n].choices]
                  /\ now[n].choices =
                        Some(Append(IF before[n].choices = None
                                    THEN <<>>
                                    ELSE before[n].choices[1],
                                    Choice(command.args.next_scene_index)))

\* C15 witness: a second add_choice, with another target, on one snapshot
\* that follows an earlier snapshot.
C15_Witness ==
    /\ command.name = "add_choice"
    /\ Len(before) = 2
    /\ before[2].choices # None
    /\ before[2].choices[1][1].next_scene_index # command.args.next_scene_index

\* C16: in the render descriptor every Navigator operation returns,
\* navEnabled is false exactly when the scene at the resulting currentIndex
\* has a non-absent choice list or a non-absent inputRequest.
C16_NavDisabledIffChoiceOrInput ==
    (result.status = "rendered" /\ ValidIndex(index)) =>
        (~result.nav_enabled <=>
            (SceneAt(index).choices # None \/ SceneAt(index).input_request # None))

\* C19: from every state reachable from the initial state of a non-empty
\* graph with valid choice targets, every Navigator operation terminates
\* without raising and returns a render descriptor.
C19_OperationsReturnDescriptor ==
    Len(scenes) > 0 => result.status = "rendered"

\* C20: on the empty story graph every Navigator operation returns the "no
\* content" render descriptor without failing and leaves currentIndex,
\* variables and activePaths unchanged.
C20_EmptyGraphNoContent ==
    Len(scenes) = 0 =>
        /\ result = NoContent
        /\ index = last.index
        /\ variables = last.variables
        /\ active_paths = last.active_paths

\* C16 amended: navEnabled is false exactly when the scene at the resulting
\* currentIndex has a non-empty choice list or a non-absent inputRequest; an
\* empty choice list counts as absent.
C16_NavDisabledIffChoicesOrInput ==
    (result.status = "rendered" /\ ValidIndex(index)) =>
        (~result.nav_enabled <=>
            \/ (SceneAt(index).choices # None /\ SceneAt(index).choices[1] # <<>>)
            \/ SceneAt(index).input_request # None)

\* C16 witness: an advance moved to a scene whose choice list is present
\* but empty, and navigation stayed enabled.
C16_Witness ==
    /\ AfterAdvance
    /\ index # last.index
    /\ result.status = "rendered"
    /\ SceneAt(index).choices = Some(<<>>)
    /\ result.nav_enabled

\* The text s with every placeholder of a key of vs replaced, in one pass
\* from the left, by that variable's value; everything else is kept.
RECURSIVE Substituted(_, _)
Substituted(s, vs) ==
    IF s = <<>>
    THEN <<>>
    ELSE LET hits == {n \in DOMAIN vs : StartsWith(s, Placeholder(n))}
         IN  IF hits = {}
             THEN <<s[1]>> \o Substituted(Tail(s), vs)
             ELSE LET n == CHOOSE n \in hits : TRUE
                  IN  Chars(vs[n]) \o
                      Substituted(SubSeq(s, Len(Placeholder(n)) + 1, Len(s)), vs)

\* The text s holds the placeholder of name n.
RECURSIVE Mentions(_, _)
Mentions(s, n) ==
    s # <<>> /\ (StartsWith(s, Placeholder(n)) \/ Mentions(Tail(s), n))

\* C17: the rendered text of a scene is its text (the blanks around it
\* aside) with every {name} whose name is a key of variables replaced by that
\* variable's value and every other placeholder left verbatim; rendering
\* never fails on an unresolved placeholder.
C17_TextSubstitutesVariables ==
    (ValidIndex(index) /\ Responsive) =>
        /\ result.status = "rendered"
        /\ result.text = Substituted(strip(Chars(SceneAt(index).text)), variables)

\* C18: after submitInput(v) with non-empty v on a scene whose inputRequest
\* names n, every scene a later Navigator operation renders whose text
\* contains {n} shows v in its place, until a later submitInput stores
\* another value for n.
C18_StoredInputShownLater ==
    (last.op # "load_initial_state" /\ result.status = "rendered") =>
        \A n \in DOMAIN stored :
            Mentions(Chars(SceneAt(index).text), n) =>
                result.text =
                    Substituted(strip(Chars(SceneAt(index).text)),
                                [k \in {n} |-> stored[n]] @@ variables)

\* C21: advance(+1) at the last index and advance(-1) at index 0, and more
\* generally advance(d) with no accessible scene beyond currentIndex in
\* direction d, leave currentIndex, variables and activePaths unchanged and
\* report no error.
C21_AdvanceNoOpWhenNothingBeyond ==
    (AfterAdvance /\ OpenBeyond(last.index, last.direction, last.active_paths) = {})
        => /\ index = last.index
           /\ variables = last.variables
           /\ active_paths = last.active_paths
           /\ result.status \in {"rendered", "no_content"}
           /\ result.status = "rendered" => result.index = last.index

\* C21 witness: an advance(+1) short of the last index stayed where it was,
\* the scenes that follow being inaccessible.
C21_Witness ==
    /\ AfterAdvance
    /\ last.direction = 1
    /\ last.index < Len(scenes) - 1
    /\ OpenBeyond(last.index, 1, last.active_paths) = {}
    /\ index = last.index

\* The scene handle or advance ran on has a choice list or an input request.
WasGated ==
    /\ ValidIndex(last.index)
    /\ (SceneAt(last.index).choices # None
            \/ SceneAt(last.index).input_request # None)

\* C27: while the current scene has a choice list or an inputRequest,
\* advance(+1) and advance(-1) leave currentIndex unchanged.
C27_GatedSceneBlocksAdvance ==
    (AfterAdvance /\ WasGated) => index = last.index

\* C28: for every graph whose scene 0 has no path and whose choice targets
\* are valid, after any sequence of advance, selectChoice and submitInput the
\* path of the scene at currentIndex is absent or is in activePaths.
C28_CurrentSceneAccessible ==
    (Len(scenes) > 0 /\ scenes[1].path = None /\ ValidIndex(index))
        => PathOpen(index, active_paths)

\* C29: for every non-empty graph whose choice targets are valid,
\* 0 <= currentIndex < sceneCount after any sequence of operations, and the
\* sceneIndex of each returned render descriptor equals currentIndex.
C29_IndexStaysInGraph ==
    Len(scenes) > 0 =>
        /\ 0 <= index /\ index < Len(scenes)
        /\ result.status = "rendered" =>
              (result.index = index /\ result.total = Len(scenes))

\* C29 witness: a submitInput at the last index of a graph of several scenes
\* stayed there.
C29_Witness ==
    /\ AfterInput
    /\ Len(scenes) > 1
    /\ last.index = Len(scenes) - 1
    /\ index = Len(scenes) - 1
    /\ result.status = "rendered"
\* Sessions over the graphs with side effects: the handlers and the three
\* retrievals, each called on the session's story_state.
InitEffects ==
    scenes \in EffectGraphs /\ load_initial_state /\ BuilderNew /\ Alone

NextEffects ==
    \/ \E direction \in {-1, 1} : Advance(direction)
    \/ \E choice_index \in {0, 1} : SelectChoice(choice_index)
    \/ \E user_input \in {"", "x"} : SubmitInput(user_input)
    \/ GetSceneAudio
    \/ GetSceneMotorPackets
    \/ GetSceneRobotPose

SpecEffects == InitEffects /\ [][NextEffects]_vars

\* Sessions whose navigation events are followed by their chained retrievals.
NextChains ==
    \/ \E direction \in {-1, 1} : ClickEvent(direction)
    \/ \E choice_index \in {0, 1} : ChoiceEvent(choice_index)
    \/ \E user_input \in {"", "x"} : InputEvent(user_input)
    \/ \E k \in 1 .. MaxEvents : AudioChain(k)
    \/ \E k \in 1 .. MaxEvents : MotorChain(k)
    \/ \E k \in 1 .. MaxEvents : PoseChain(k)

SpecChains == InitEffects /\ [][NextChains]_vars

\* The side effects of scene i of a graph, as the claims describe them: one
\* packet per motor command in the order of the list, the audio file, the
\* nine fields of the pose; nothing when i is not an index of the graph.
IsPacketsOf(value, graph, i) ==
    IF 0 <= i /\ i < Len(graph)
    THEN LET cmds == graph[i + 1].motor_commands
         IN  /\ Len(value) = Len(cmds)
             /\ \A j \in 1 .. Len(cmds) :
                   /\ value[j].motor_id = cmds[j].motor_id
                   /\ value[j].ticks =
                          dxl_build_goal_position_packet(cmds[j].motor_id,
                                                         cmds[j].position).ticks
    ELSE value = <<>>

IsAudioOf(value, graph, i) ==
    IF 0 <= i /\ i < Len(graph)
    THEN value = graph[i + 1].audio_file
    ELSE value = None

IsPoseOf(value, graph, i) ==
    IF 0 <= i /\ i < Len(graph) /\ graph[i + 1].robot_pose # None
    THEN LET pose == graph[i + 1].robot_pose[1]
         IN  /\ value # None
             /\ value[1].target_head_pose.x = pose.head_x
             /\ value[1].target_head_pose.y = pose.head_y
             /\ value[1].target_head_pose.z = pose.head_z
             /\ value[1].target_head_pose.roll = pose.head_roll
             /\ value[1].target_head_pose.pitch = pose.head_pitch
             /\ value[1].target_head_pose.yaw = pose.head_yaw
             /\ value[1].target_body_yaw = pose.body_yaw
             /\ value[1].target_antennas = <<pose.antenna_left,
                                             pose.antenna_right>>
    ELSE value = None

AfterRetrieval ==
    last.op \in {"get_scene_motor_packets", "get_scene_audio",
                 "get_scene_robot_pose"}

\* C22: retrieving the motor command list, the audio path or the robot pose
\* changes neither currentIndex, variables, activePaths nor any scene, and
\* the result is that of the scene of the story graph at currentIndex: its
\* motor commands in order, its audio file, its robot pose, and the empty or
\* absent value when currentIndex is not an index of the graph.
C22_RetrievalReadsCurrentScene ==
    AfterRetrieval =>
        /\ index = last.index
        /\ variables = last.variables
        /\ active_paths = last.active_paths
        /\ scenes = story
        /\ last.op = "get_scene_motor_packets"
              => IsPacketsOf(result.value, story, index)
        /\ last.op = "get_scene_audio" => IsAudioOf(result.value, story, index)
        /\ last.op = "get_scene_robot_pose"
              => IsPoseOf(result.value, story, index)

\* C22 witness: the motor packets of a later scene with several commands
\* were retrieved in a session that has stored an input.
C22_Witness ==
    /\ last.op = "get_scene_motor_packets"
    /\ index > 0
    /\ variables # <<>>
    /\ Len(result.value) > 1
    /\ result.value[1] # result.value[2]

\* C24: no Navigator operation (advance, selectChoice, submitInput, a
\* side-effect retrieval) changes the story graph: the number of scenes and
\* every field of every scene equal those of the graph build() returned.
C24_OperationsLeaveGraphAlone ==
    /\ Len(scenes) = Len(story)
    /\ \A i \in 1 .. Len(story) : scenes[i] = story[i]

\* C24 witness: a submitInput stored its text, and the scene that asked for
\* it still holds its input request.
C24_Witness ==
    /\ AfterInput
    /\ variables # last.variables
    /\ scenes[last.index + 1].input_request # None
    /\ scenes[last.index + 1].motor_commands # <<>>
    /\ scenes = story

\* C30: the audio, motor and robot-pose retrievals chained to a navigation
\* event dispatch the side effects of the scene that event landed on, also
\* when a later navigation event of the session was handled before they ran.
C30_ChainsReadTheirEventsState ==
    \A k \in 1 .. Len(chains) :
        /\ chains[k].audio.ran
              => IsAudioOf(chains[k].audio.value, story, chains[k].landed)
        /\ chains[k].motors.ran
              => IsPacketsOf(chains[k].motors.value, story, chains[k].landed)
        /\ chains[k].pose.ran
              => IsPoseOf(chains[k].pose.value, story, chains[k].landed)

\* C25: patching an emitted snapshot by index puts a new, independent
\* snapshot at that index: the previous snapshot is not mutated, the
\* sequence keeps its length, every other snapshot is unchanged, and so is
\* the builder's running-state template.
C25_PatchPutsIndependentSnapshot ==
    command.name = "patch" =>
        LET old == unpatched[1]
            i == command.args.index + 1
        IN  /\ Len(builder._states) = Len(old.builder._states)
            /\ \A j \in 1 .. Len(builder._states) :
                  j # i => /\ builder._states[j] = old.builder._states[j]
                           /\ View(heap, builder._states[j]) = before[j]
            /\ View(heap, old.builder._states[i]) = before[i]
            /\ SubSeq(heap, 1, Len(old.heap)) = old.heap
            /\ \A a \in Parts(i) : a > Len(old.heap)
            /\ [builder EXCEPT !._states = <<>>]
                   = [old.builder EXCEPT !._states = <<>>]

\* C25 witness: a patch of a graph of several snapshots replaced one that
\* showed a character and requested input by one that offers choices.
C25_Witness ==
    /\ command.name = "patch"
    /\ Len(builder._states) > 1
    /\ DOMAIN before[command.args.index + 1].characters # {}
    /\ before[command.args.index + 1].input_request # None
    /\ View(heap, builder._states[command.args.index + 1]).choices # None
    /\ View(heap, builder._states[command.args.index + 1]).input_request = None

\* Several sessions, each loaded once, their events handled in any order.
InitSessions ==
    /\ scenes = <<>>
    /\ load_initial_state
    /\ BuilderNew
    /\ story \in SessionGraphs
    /\ chains = <<>>
    /\ store = <<>>
    /\ sessions = [s \in Sessions |-> None]
    /\ active = None

NextSessions ==
    \/ \E s \in Sessions : Load(s)
    \/ \E s \in Sessions : Switch(s)
    \/ \E s \in Sessions, direction \in {-1, 1} : SessionAdvance(s, direction)
    \/ \E s \in Sessions, choice_index \in {0, 1} :
          SessionChoice(s, choice_index)
    \/ \E s \in Sessions, user_input \in {"", "x"} : SessionInput(s, user_input)

SpecSessions == InitSessions /\ [][NextSessions]_vars

\* The story_state of a loaded session, its objects read from the store.
ViewOf(s) == SessionView(store, sessions[s][1].state)

\* C23: with two or more sessions interleaved, a step taken for one session
\* never changes the currentIndex, the variables or the activePaths of
\* another session, and never changes a scene another session reads.
C23_SessionsDoNotInterfere ==
    [][\A t \in Sessions :
          (sessions[t] # None /\ active' # Some(t))
              => /\ sessions'[t] # None
                 /\ SessionView(store', sessions'[t][1].state) = ViewOf(t)]_vars

\* C23 witness: session s2 has just stored an input and moved on while
\* session s1, loaded before it, holds no variable and stands elsewhere.
C23_Witness ==
    /\ sessions["s1"] # None
    /\ sessions["s2"] # None
    /\ active = Some("s2")
    /\ last.op = "handle_input"
    /\ variables # <<>>
    /\ ViewOf("s2").variables = variables
    /\ ViewOf("s1").variables = <<>>
    /\ ViewOf("s1").index # index

\* C26: every session starts with currentIndex = 0, empty variables and
\* empty activePaths, and its first render descriptor is that of scene 0.
C26_SessionStartsAtSceneZero ==
    (active # None /\ last.op = "load_initial_state") =>
        /\ ViewOf(active[1]).index = 0
        /\ ViewOf(active[1]).variables = <<>>
        /\ ViewOf(active[1]).active_paths = {}
        /\ ViewOf(active[1]).scenes = story
        /\ index = 0
        /\ variables = <<>>
        /\ active_paths = {}
        /\ result.status = "rendered"
        /\ result.index = 0
        /\ result.total = Len(story)
        /\ result.has_choices = TruthyList(story[1].choices)
        /\ result.has_input = TruthyObj(story[1].input_request)

\* C26 witness: session s2 starts after session s1 has stored an input,
\* activated a path or moved on.
C26_Witness ==
    /\ last.op = "load_initial_state"
    /\ active = Some("s2")
    /\ sessions["s1"] # None
    /\ ViewOf("s1").index > 0
    /\ ViewOf("s1").variables # <<>>

\* C31: only selectChoice changes activePaths and only submitInput changes
\* variables: advance and submitInput leave activePaths unchanged, advance
\* and selectChoice leave variables unchanged, and a selectChoice whose
\* target scene has no path leaves activePaths unchanged.
C31_OnlyChoiceActivatesOnlyInputStores ==
    /\ AfterAdvance => (variables = last.variables
                            /\ active_paths = last.active_paths)
    /\ AfterInput => active_paths = last.active_paths
    /\ AfterChoice => variables = last.variables
    /\ (AfterChoice /\ ChoiceInRange /\ SceneAt(ChosenTarget).path = None)
          => active_paths = last.active_paths

\* C31 witness: with a path active, a selectChoice jumped to a scene
\* without a path and the active paths are those of before.
C31_Witness ==
    /\ AfterChoice
    /\ ChoiceInRange
    /\ SceneAt(ChosenTarget).path = None
    /\ index = ChosenTarget
    /\ last.active_paths # {}
    /\ active_paths = last.active_paths

\* C34: activation and accessibility agree on which path values count as
\* absent: whatever path the target carries, the empty string included, the
\* scene a successful selectChoice lands on is accessible right afterwards.
C34_ChosenSceneAccessible ==
    (AfterChoice /\ ChoiceInRange /\ index = ChosenTarget)
        => PathOpen(index, active_paths)

\* C35: text substitution is single-pass: a placeholder {m} inside the
\* stored value of a variable n is shown verbatim where {n} is rendered and
\* is never replaced by the value of m, in whatever order the two were
\* stored.
C35_SubstitutionIsSinglePass ==
    (ValidIndex(index) /\ result.status = "rendered") =>
        \A n, m \in DOMAIN variables :
            (/\ n # m
             /\ Mentions(strip(Chars(SceneAt(index).text)), n)
             /\ Mentions(Chars(variables[n]), m))
                => Mentions(result.text, m)

\* ------------------------------------------------- snapshots of the Builder

\* The commands that emit a snapshot.
Emitting ==
    {"show_character", "dialogue", "narration", "request_input",
     "send_motor_command", "send_motor_commands", "send_robot_pose",
     "play_sound"}

\* The motor commands a list of (motor_id, position) tuples stands for.
CommandsOf(commands) ==
    [i \in 1 .. Len(commands) |-> MotorCommand(commands[i][1], commands[i][2])]

\* The dialogue and side effects of a snapshot.
Carried(view) ==
    [speaker |-> view.speaker, text |-> view.text,
     input_request |-> view.input_request, choices |-> view.choices,
     motor_commands |-> view.motor_commands, audio_file |-> view.audio_file,
     robot_pose |-> view.robot_pose]

Nothing ==
    [speaker |-> "", text |-> "", input_request |-> None, choices |-> None,
     motor_commands |-> <<>>, audio_file |-> None, robot_pose |-> None]

\* What the command name(args) is documented to put on its snapshot.
Attached(name, args) ==
    CASE name = "dialogue" ->
            [Nothing EXCEPT !.speaker = args.speaker, !.text = args.text]
      [] name = "narration" -> [Nothing EXCEPT !.text = args.text]
      [] name = "request_input" ->
            [Nothing EXCEPT
                !.input_request = Some(InputRequest(args.variable_name))]
      [] name = "send_motor_command" ->
            [Nothing EXCEPT
                !.motor_commands = <<MotorCommand(args.motor_id, args.position)>>]
      [] name = "send_motor_commands" ->
            [Nothing EXCEPT !.motor_commands = CommandsOf(args.commands)]
      [] name = "send_robot_pose" -> [Nothing EXCEPT !.robot_pose = Some(args.pose)]
      [] name = "play_sound" ->
            [Nothing EXCEPT !.audio_file = Some(args.audio_file)]
      [] OTHER -> Nothing

\* C32: dialogue and side effects are not inherited between snapshots. The
\* snapshot a command emits has an empty speaker and text, no input request,
\* no choices, no motor commands, no audio file and no robot pose, except
\* the field its command sets; the snapshots emitted before keep what they
\* carried, and only add_choice changes one (the choices of the last).
C32_NothingInherited ==
    LET now == Views(heap, builder._states)
        n == Len(before)
    IN  /\ command.name \in Emitting =>
              /\ Len(now) = n + 1
              /\ Carried(now[n + 1]) = Attached(command.name, command.args)
              /\ \A i \in 1 .. n : Carried(now[i]) = Carried(before[i])
        /\ command.name = "add_choice" =>
              \A i \in 1 .. Len(now) :
                  [Carried(now[i]) EXCEPT !.choices = None]
                      = [Carried(before[i]) EXCEPT !.choices = None]

\* A sound is played right after a snapshot with motor commands and a
\* choice: the new snapshot has the sound only, the old one its commands.
C32_Witness ==
    /\ command.name = "play_sound"
    /\ Len(before) = 2
    /\ before[2].motor_commands # <<>>
    /\ before[2].choices # None
    /\ before[1].text # ""
    /\ Carried(View(heap, builder._states[3])) =
          [Nothing EXCEPT !.audio_file = Some("a.wav")]

\* C33: every emitting command appends exactly one snapshot at the end and
\* leaves the snapshots before it at their indices; a command that names a
\* character never registered still appends one, with the character map as
\* it was and without that character; send_motor_commands with k commands
\* appends one snapshot holding the k commands in order; the other commands
\* append nothing, so the sequence is as long as the number of emitting
\* commands issued.
C33_OneSnapshotPerCommand ==
    LET now == Views(heap, builder._states)
        n == Len(before)
        name == command.name
    IN  /\ name \in Emitting =>
              /\ Len(now) = n + 1
              /\ \A i \in 1 .. n : now[i] = before[i]
        /\ name \notin Emitting => Len(now) = n
        /\ Len(now) <= command.count
        /\ (name = "show_character" /\ command.args.name \notin DOMAIN look.characters) =>
              /\ Len(now) = n + 1
              /\ now[n + 1].characters = look.characters
              /\ command.args.name \notin DOMAIN now[n + 1].characters
        /\ name = "send_motor_commands" =>
              /\ Len(now) = n + 1
              /\ now[n + 1].motor_commands = CommandsOf(command.args.commands)

\* A character never registered is shown after another one was registered
\* and three motor commands were sent at once.
C33_Witness ==
    /\ command.name = "show_character"
    /\ command.args.name \notin DOMAIN look.characters
    /\ look.characters # <<>>
    /\ Len(before) = 1
    /\ Len(before[1].motor_commands) = 3
    /\ Len(builder._states) = 2

\* ------------------------------------------------------- the sample story

\* The path tags of the sample story's branches.
BranchTags ==
    {Some("accept"), Some("decline"), Some("accept.follow_ari"),
     Some("accept.follow_bo")}

\* The Python indices of the scenes of graph that hold choices, in order.
ChoiceScenes(graph) ==
    SelectSeq([i \in 1 .. Len(graph) |-> i - 1],
              LAMBDA i : TruthyList(graph[i + 1].choices))

\* Scene t (a Python index) is the first scene of graph with its path.
FirstOfBranch(graph, t) ==
    \A j \in 0 .. t - 1 : graph[j + 1].path # graph[t + 1].path

\* C36: in the graph build_sample_story returns, every Choice targets a
\* valid index greater than the index of the scene that holds it, the
\* target is the first scene of its branch and carries one of the four
\* branch tags, and the scene with the second choice list is tagged accept.
C36_SampleChoicesPointForward ==
    returned # None =>
        LET graph == StoryGraph
            holders == ChoiceScenes(graph)
        IN  /\ \A k \in 1 .. Len(holders) :
                  \A c \in 1 .. Len(graph[holders[k] + 1].choices[1]) :
                      LET t == graph[holders[k] + 1].choices[1][c].next_scene_index
                      IN  /\ 0 <= t /\ t < Len(graph)
                          /\ t > holders[k]
                          /\ graph[t + 1].path \in BranchTags
                          /\ FirstOfBranch(graph, t)
            /\ Len(holders) >= 2 => graph[holders[2] + 1].path = Some("accept")

\* The graph was returned with two choice scenes, whose four targets carry
\* the four tags.
C36_Witness ==
    /\ returned # None
    /\ Len(ChoiceScenes(StoryGraph)) = 2
    /\ {StoryGraph[StoryGraph[h + 1].choices[1][c].next_scene_index + 1].path :
            h \in {ChoiceScenes(StoryGraph)[k] : k \in 1 .. 2}, c \in 1 .. 2}
          = BranchTags

\* C37: while the player uses only the controls the descriptor enables,
\* sibling branches of the sample story stay exclusive: active_paths never
\* holds both accept and decline, nor both accept.follow_ari and
\* accept.follow_bo.
C37_SiblingBranchesExclusive ==
    /\ ~({"accept", "decline"} \subseteq active_paths)
    /\ ~({"accept.follow_ari", "accept.follow_bo"} \subseteq active_paths)

\* Scene i (a Python index) is the last scene tagged tag.
LastOfBranch(i, tag) ==
    /\ scenes[i + 1].path = Some(tag)
    /\ \A j \in i + 1 .. Len(scenes) - 1 : scenes[j + 1].path # Some(tag)

\* The player is at an ending: a scene without choices and without an input
\* request where Next changes nothing, the last of the decline, Follow Ari
\* or Follow Bo branch.
AtEnding ==
    /\ last.op # "none"
    /\ Shown
    /\ ~result.has_choices
    /\ ~result.has_input
    /\ change_scene(1).index = index
    /\ \E tag \in {"decline", "accept.follow_ari", "accept.follow_bo"} :
          LastOfBranch(index, tag)

\* C38: in the sample story a player who only moves forward (Next where it
\* is enabled, one of the offered choices, a submitted text where input is
\* requested) eventually reaches an ending.
C38_ForwardPlayerReachesEnding == <>AtEnding

\* The ending of the Follow Bo branch, reached with the name given.
C38_Witness ==
    /\ AtEnding
    /\ LastOfBranch(index, "accept.follow_bo")
    /\ "player_name" \in DOMAIN variables
    /\ active_paths = {"accept", "accept.follow_bo"}

====
